---- MODULE Spec2Model ----
(***************************************************************************)
(* MerkleBooks (SolBooks): the transaction hook useTransactions with its   *)
(* module-level wallet queue and signature cache, and the merge step       *)
(* ("Reconciler") of fetchAllTransactions.                                 *)
(*                                                                         *)
(* Source: src/src/utils/security-config.ts lines 1-824 (the security      *)
(* configuration followed by hooks/useTransactions.ts) and                 *)
(* src/src/utils/storage.ts.                                               *)
(***************************************************************************)
EXTENDS Integers, Sequences, FiniteSets, TLC

(***************************************************************************)
(* Bounds of the model.                                                    *)
(***************************************************************************)
MaxCandidates == 2
MaxPersisted == 2
MaxEnqueues == 2
MaxRefreshes == 2
MaxRateCalls == 2
MaxTicks == 3
MaxBatchRuns == 2
MaxAttempt == 6
MaxCacheSize == 4
MaxAccessCount == 2
MaxCacheClock == 2
MaxSignatures == 21

(***************************************************************************)
(* Program constants.                                                      *)
(***************************************************************************)
WALLET_QUEUE_DELAY_BASE_MS == 1000
WALLET_QUEUE_DELAY_MAX_MS == 30000
WALLET_QUEUE_MAX_RETRIES == 3
WALLET_QUEUE_MAX_SIZE == 50
JUPITER_MAX_RETRIES == 3
JUPITER_RETRY_DELAY_BASE_MS == 1000
JUPITER_RETRY_DELAY_MAX_MS == 30000
EXCHANGE_RATE_CACHE_TTL_MS == 300000
EXCHANGE_RATE_CACHE_MAX_SIZE == 100
RPC_REQUEST_TIMEOUT_MS == 15000
DUST_THRESHOLD == 1000
LAMPORTS_PER_SOL == 1000000000
JITTER_MAX == 1000
MAX_TOKEN_AMOUNT == 1000000000
TRANSACTION_BATCH_SIZE == 10
SPL_SIGNATURES_PER_ACCOUNT_MAX == 20

(***************************************************************************)
(* Transaction records (types: Transaction).  token is represented by its  *)
(* mint; id is `${signature}-native` / `${signature}-${mint}`, the pair.   *)
(***************************************************************************)
Signatures == {"s1", "s2"}
Mints == {"native", "m1"}
Keys == {<<"s1", "native">>, <<"s1", "m1">>, <<"s2", "native">>}

NoNotes == "undefined"

\* The record a fetcher returns (fetchSOLTransactions / fetchSPLTransactions).
Candidate(sig, mint, amount, change, ts) ==
  [id |-> <<sig, mint>>,
   signature |-> sig,
   mint |-> mint,
   amount |-> amount,
   type |-> IF change > 0 THEN "income" ELSE "expense",
   description |-> IF change > 0 THEN "Received" ELSE "Sent",
   timestamp |-> ts,
   category |-> "Uncategorized",
   notes |-> NoNotes,
   classified |-> FALSE]

\* classifyTransaction's update of one record.
Classified(tx, category, notes) ==
  [tx EXCEPT !.category = category, !.notes = notes, !.classified = TRUE]

SeqsUpTo(S, n) == UNION {[1..k -> S] : k \in 0..n}

(***************************************************************************)
(* The merge step of fetchAllTransactions, as pure functions.              *)
(***************************************************************************)
\* tx.signature === newTx.signature && tx.token.mint === newTx.token.mint
SameKey(a, b) == a.signature = b.signature /\ a.mint = b.mint

\* Array.prototype.find: the index of the first element with tx's key, 0 if none.
FindIndex(list, tx) ==
  IF \E i \in 1..Len(list) : SameKey(list[i], tx)
  THEN CHOOSE i \in 1..Len(list) :
         /\ SameKey(list[i], tx)
         /\ \A j \in 1..(i - 1) : ~SameKey(list[j], tx)
  ELSE 0

\* Mutant of KeepClassification: the fetched record is kept as fetched.
KeepClassification_Dropped(newTx, existing) == newTx

\* The object spread of the map callback: newTx with the existing record's
\* classification data.
KeepClassification(newTx, existing) ==
  [newTx EXCEPT !.category = existing.category,
                !.notes = existing.notes,
                !.classified = existing.classified]

\* allTransactions.map(newTx => ...)
MergeNew(newTxs, existing) ==
  [i \in 1..Len(newTxs) |->
     LET j == FindIndex(existing, newTxs[i])
     IN  IF j # 0 THEN KeepClassification(newTxs[i], existing[j]) ELSE newTxs[i]]

\* Mutant of AddExisting: stored records absent from the fetch are not kept.
AddExisting_Skipped(merged, existing, i) == merged

\* existingTransactions.forEach(existingTx => { if (!found) merged.push(existingTx) })
RECURSIVE AddExisting(_, _, _)
AddExisting(merged, existing, i) ==
  IF i > Len(existing) THEN merged
  ELSE AddExisting(IF FindIndex(merged, existing[i]) = 0
                   THEN Append(merged, existing[i])
                   ELSE merged,
                   existing, i + 1)

\* Mutant of RemoveDuplicates: the reduce is left out.
RemoveDuplicates_None(acc, merged, i) == merged

\* mergedTransactions.reduce((acc, current) => ...)
RECURSIVE RemoveDuplicates(_, _, _)
RemoveDuplicates(acc, merged, i) ==
  IF i > Len(merged) THEN acc
  ELSE RemoveDuplicates(IF FindIndex(acc, merged[i]) = 0
                        THEN Append(acc, merged[i])
                        ELSE acc,
                        merged, i + 1)

\* Mutant of InsertSorted: records of equal timestamp are put in reverse.
RECURSIVE InsertSorted_TiesReversed(_, _)
InsertSorted_TiesReversed(sorted, tx) ==
  IF sorted = <<>> THEN <<tx>>
  ELSE IF Head(sorted).timestamp > tx.timestamp
       THEN <<Head(sorted)>> \o InsertSorted_TiesReversed(Tail(sorted), tx)
       ELSE <<tx>> \o sorted

\* Mutant of InsertSorted: the comparator is a - b (oldest first).
RECURSIVE InsertSorted_OldestFirst(_, _)
InsertSorted_OldestFirst(sorted, tx) ==
  IF sorted = <<>> THEN <<tx>>
  ELSE IF Head(sorted).timestamp <= tx.timestamp
       THEN <<Head(sorted)>> \o InsertSorted_OldestFirst(Tail(sorted), tx)
       ELSE <<tx>> \o sorted

\* Insert tx into a list sorted newest first, after every element that does
\* not compare greater (Array.prototype.sort is stable).
RECURSIVE InsertSorted(_, _)
InsertSorted(sorted, tx) ==
  IF sorted = <<>> THEN <<tx>>
  ELSE IF Head(sorted).timestamp >= tx.timestamp
       THEN <<Head(sorted)>> \o InsertSorted(Tail(sorted), tx)
       ELSE <<tx>> \o sorted

\* uniqueTransactions.sort((a, b) => b.timestamp.getTime() - a.timestamp.getTime())
RECURSIVE SortNewestFirst(_, _, _)
SortNewestFirst(sorted, list, i) ==
  IF i > Len(list) THEN sorted
  ELSE SortNewestFirst(InsertSorted(sorted, list[i]), list, i + 1)

\* Lines 389-422: the canonical set computed from the fetched candidates and
\* the stored records.
Reconcile(newTxs, existing) ==
  LET merged == AddExisting(MergeNew(newTxs, existing), existing, 1)
      unique == RemoveDuplicates(<<>>, merged, 1)
  IN  SortNewestFirst(<<>>, unique, 1)

(***************************************************************************)
(* State.                                                                  *)
(***************************************************************************)
VARIABLES
  rcCandidates,      \* Reconciler harness: allTransactions handed to the merge
  rcPersisted,       \* Reconciler harness: what loadTransactions() returned
  rcOutput,          \* Reconciler harness: uniqueTransactions
  rcPhase,           \* Reconciler harness: "input" | "done"
  walletQueue,       \* const walletQueue: QueuedWallet[]
  isQueueProcessing, \* let isQueueProcessing
  running,           \* the task() calls awaited by processWalletQueue
  retryTimers,       \* pending setTimeout callbacks of the catch branch
  processTimers,     \* pending setTimeout callbacks of the finally branch
  nextEid,           \* history: number of addToWalletQueue calls so far, plus 1
  history,           \* history: per addToWalletQueue call, see NoHistory
  storage,           \* localStorage['solbooks_transactions']
  transactions,      \* per hook instance: useState<Transaction[]>
  loading,           \* per hook instance: useState(false)
  pc,                \* per hook instance: where its fetchAllTransactions call is
  allTransactions,   \* per hook instance: the allTransactions of that call
  lastResult,        \* history: per hook instance, how its last call ended
  transactionCache,  \* keys of const transactionCache
  activeWallets,     \* loadWalletConfigs(): the configs with isActive
  refreshes,         \* number of fetchAllTransactions calls that went ahead
  exchangeRateCache, \* let exchangeRateCache: rates, lastUpdated, size
  now,               \* Date.now(), counted in ms from 1
  fxPc,              \* the getExchangeRates call: "idle" | "fetching" | "backoff" | "done"
  fxRetryCount,      \* retryCount of the current fetchExchangeRatesFromJupiter frame
  fxNow,             \* const now of the getExchangeRates call
  fxSettled,         \* how the call's promise settled, and with what map
  fxLast,            \* history: what the oracle did at the call's last request
  fxRequests,        \* history: number of oracle requests the call has issued
  fxDelay,           \* the backoff delay being waited for, 0 when none
  fxCalls,           \* history: number of getExchangeRates calls so far
  fxTicks,           \* history: number of clock steps so far
  txReq,             \* per signature of the batch: its request, timer and result
  txPhase,           \* the batch of fetchSOLTransactions: "idle" | "awaiting" | "done"
  txOut,             \* solTransactions
  txRuns,            \* history: number of batches started
  bkCall,            \* calculateBackoffDelay: the arguments and Math.random() draws
  bkDelay,           \* calculateBackoffDelay: <<>> or the delays returned
  inPc,              \* initializeExchangeRates' call of getExchangeRates: as fxPc
  inRetryCount,      \* retryCount of that call's fetchExchangeRatesFromJupiter frame
  inNow,             \* const now of that call
  inRequests,        \* history: number of oracle requests that call has issued
  waiter,            \* the promise of lines 376-383: "none" | "waiting" | "resolved"
  cacheEntries,      \* transactionCache as a Map: its entries, in insertion order
  cacheNow,          \* Date.now() as the cache's operations read it
  cacheLast,         \* history: the last operation on cacheEntries and its outcome
  tkReq,             \* token fetcher: the callback of one signature of a batch
  tkPhase,           \* token fetcher: "idle" | "awaiting" | "done"
  tkOut,             \* token fetcher: validTransactions of the batch
  tkRuns,            \* history: number of batches started
  fetcher,           \* the fetcher that is running: "native" | "token"
  mbReq,             \* batch loop: per signature, the state of its request
  mbIndex,           \* batch loop: i of `for (let i = 0; ...; i += batchSize)`
  mbPhase            \* batch loop: "idle" | "awaiting" | "delay" | "done"

rcVars == <<rcCandidates, rcPersisted, rcOutput, rcPhase>>
queueVars == <<walletQueue, isQueueProcessing, running, retryTimers, processTimers>>
queueHistory == <<nextEid, history>>
hookVars == <<storage, transactions, loading, pc, allTransactions, lastResult,
              transactionCache, activeWallets, refreshes>>
fxVars == <<exchangeRateCache, now, fxPc, fxRetryCount, fxNow, fxSettled, fxLast,
            fxRequests, fxDelay, fxCalls, fxTicks>>
txVars == <<txReq, txPhase, txOut, txRuns>>
bkVars == <<bkCall, bkDelay>>
inVars == <<inPc, inRetryCount, inNow, inRequests>>
ceVars == <<cacheEntries, cacheNow, cacheLast>>
tkVars == <<tkReq, tkPhase, tkOut, tkRuns>>
mbVars == <<fetcher, mbReq, mbIndex, mbPhase>>
hookRest == <<storage, transactions, loading, pc, allTransactions, lastResult,
              activeWallets, refreshes>>
vars == <<rcCandidates, rcPersisted, rcOutput, rcPhase,
          walletQueue, isQueueProcessing, running, retryTimers, processTimers,
          nextEid, history,
          storage, transactions, loading, pc, allTransactions, lastResult,
          transactionCache, activeWallets, refreshes,
          exchangeRateCache, now, fxPc, fxRetryCount, fxNow, fxSettled, fxLast,
          fxRequests, fxDelay, fxCalls, fxTicks,
          txReq, txPhase, txOut, txRuns,
          bkCall, bkDelay,
          inPc, inRetryCount, inNow, inRequests, waiter,
          cacheEntries, cacheNow, cacheLast,
          tkReq, tkPhase, tkOut, tkRuns,
          fetcher, mbReq, mbIndex, mbPhase>>

(***************************************************************************)
(* calculateBackoffDelay (lines 91-95); jitter is Math.random() * 1000.    *)
(***************************************************************************)
Min(a, b) == IF a <= b THEN a ELSE b

\* Mutant of calculateBackoffDelay: the cap is not applied.
calculateBackoffDelay_Uncapped(attempt, baseDelay, maxDelay, jitter) ==
  baseDelay * 2 ^ attempt + jitter

\* Mutant of calculateBackoffDelay: the delay is halved per attempt.
calculateBackoffDelay_Halving(attempt, baseDelay, maxDelay, jitter) ==
  Min(baseDelay \div 2 ^ attempt, maxDelay) + jitter

calculateBackoffDelay(attempt, baseDelay, maxDelay, jitter) ==
  Min(baseDelay * 2 ^ attempt, maxDelay) + jitter

JitterValues == {0, 999}

\* The calls checked on their own: attempts 0..MaxAttempt, the base delays
\* and caps of the two callers and smaller ones, and two draws of
\* Math.random() * 1000 (whole milliseconds of [0, 1000)) for the calls with
\* attempt and attempt + 1.
BackoffJitters == {0, 1, 500, JITTER_MAX - 1}
BackoffCalls ==
  [attempt : 0..MaxAttempt,
   baseDelay : {1, WALLET_QUEUE_DELAY_BASE_MS, 2 * JUPITER_RETRY_DELAY_BASE_MS},
   maxDelay : {WALLET_QUEUE_DELAY_BASE_MS, JUPITER_RETRY_DELAY_MAX_MS},
   jitter : BackoffJitters,
   jitterNext : BackoffJitters]

NoBackoffCall ==
  [attempt |-> 0, baseDelay |-> 0, maxDelay |-> 0, jitter |-> 0, jitterNext |-> 0]

\* calculateBackoffDelay(attempt, ...) and calculateBackoffDelay(attempt + 1, ...)
CallBackoff ==
  /\ bkCall # NoBackoffCall
  /\ bkDelay = <<>>
  /\ bkDelay' = <<calculateBackoffDelay(bkCall.attempt, bkCall.baseDelay,
                                        bkCall.maxDelay, bkCall.jitter),
                  calculateBackoffDelay(bkCall.attempt + 1, bkCall.baseDelay,
                                        bkCall.maxDelay, bkCall.jitterNext)>>
  /\ UNCHANGED bkCall
  /\ UNCHANGED <<fxVars, txVars, inVars, ceVars, tkVars, mbVars, waiter, rcVars, queueVars, queueHistory, hookVars>>

BackoffIdle == bkCall = NoBackoffCall /\ bkDelay = <<>>

(***************************************************************************)
(* The wallet queue (lines 118-203).  A queue entry is the QueuedWallet    *)
(* object; eid tags the addToWalletQueue call it came from (0: untagged)   *)
(* and is carried along by the object spread of the retry.                 *)
(***************************************************************************)
Wallet(address, name) == [address |-> address, name |-> name]

QueuedWallet(wallet, task, retryCount, eid) ==
  [wallet |-> wallet, task |-> task, retryCount |-> retryCount, eid |-> eid]

Eids == 1..MaxEnqueues

\* History of one addToWalletQueue call: what was asked, how often its task
\* was started and failed, whether it succeeded, and what the other calls'
\* histories were when it was made (atAdd) and when its task first started
\* (atStart).
Counts(h) ==
  [e \in Eids |-> [attempts |-> h[e].attempts, fails |-> h[e].fails, ok |-> h[e].ok]]

NoCounts == [e \in Eids |-> [attempts |-> 0, fails |-> 0, ok |-> FALSE]]

NoHistory ==
  [e \in Eids |->
     [address |-> "none", name |-> "none", accepted |-> FALSE,
      attempts |-> 0, fails |-> 0, ok |-> FALSE,
      atAdd |-> NoCounts, atStart |-> NoCounts]]

HistAdd(h, eid, wallet, accepted) ==
  IF eid \in Eids
  THEN [h EXCEPT ![eid].address = wallet.address,
                 ![eid].name = wallet.name,
                 ![eid].accepted = accepted,
                 ![eid].atAdd = Counts(h)]
  ELSE h

HistStart(h, item) ==
  IF item.eid \in Eids
  THEN [h EXCEPT ![item.eid].attempts = @ + 1,
                 ![item.eid].atStart =
                   IF h[item.eid].attempts = 0 THEN Counts(h) ELSE @]
  ELSE h

HistSettle(h, item, ok) ==
  IF item.eid \in Eids
  THEN [h EXCEPT ![item.eid].ok = ok,
                 ![item.eid].fails = IF ok THEN @ ELSE @ + 1]
  ELSE h

\* Mutant of QueueBusy: the isQueueProcessing test is missing.
QueueBusy_NoFlag(processing, queue) == queue = <<>>

\* Line 129: if (isQueueProcessing || walletQueue.length === 0) return;
QueueBusy(processing, queue) == processing \/ queue = <<>>

\* Lines 132-135: walletQueue.splice(0, length - WALLET_QUEUE_MAX_SIZE)
TrimQueue(queue) ==
  IF Len(queue) > WALLET_QUEUE_MAX_SIZE
  THEN SubSeq(queue, Len(queue) - WALLET_QUEUE_MAX_SIZE + 1, Len(queue))
  ELSE queue

\* The first step of a task: "run" for a plain task, "sol" for the task
\* built by fetchAllTransactions.
FirstStep(item) == IF item.task = "task" THEN "run" ELSE "sol"

\* The queue state the functions below work on.
QueueState ==
  [queue |-> walletQueue, processing |-> isQueueProcessing,
   running |-> running, history |-> history]

SetQueueState(qs) ==
  /\ walletQueue' = qs.queue
  /\ isQueueProcessing' = qs.processing
  /\ running' = qs.running
  /\ history' = qs.history

\* processWalletQueue() up to its await (lines 128-143): nothing when busy
\* or empty, else the flag is set and the head's task is started.
processWalletQueue(qs) ==
  IF QueueBusy(qs.processing, qs.queue)
  THEN qs
  ELSE LET item == Head(TrimQueue(qs.queue))
       IN  [queue |-> Tail(TrimQueue(qs.queue)),
            processing |-> TRUE,
            running |-> qs.running \cup {[item |-> item, step |-> FirstStep(item)]},
            history |-> HistStart(qs.history, item)]

\* Mutant of IsQueued: entries are never found.
IsQueued_Never(queue, wallet) == FALSE

\* Lines 185-187: findIndex(item => item.wallet.address === wallet.address ||
\*                                 item.wallet.name === wallet.name) >= 0
IsQueued(queue, wallet) ==
  \E i \in 1..Len(queue) :
    \/ queue[i].wallet.address = wallet.address
    \/ queue[i].wallet.name = wallet.name

\* addToWalletQueue(wallet, task), lines 183-203.
addToWalletQueue(qs, wallet, task, eid) ==
  IF IsQueued(qs.queue, wallet)
  THEN [qs EXCEPT !.history = HistAdd(qs.history, eid, wallet, FALSE)]
  ELSE LET pushed ==
             [qs EXCEPT !.queue = Append(qs.queue, QueuedWallet(wallet, task, 0, eid)),
                        !.history = HistAdd(qs.history, eid, wallet, TRUE)]
       IN  IF ~pushed.processing THEN processWalletQueue(pushed) ELSE pushed

\* Mutant of ShouldRetry: the comparison is off by one.
ShouldRetry_OffByOne(retryCount) == retryCount <= WALLET_QUEUE_MAX_RETRIES

\* Line 150: if (retryCount < WALLET_QUEUE_MAX_RETRIES)
ShouldRetry(retryCount) == retryCount < WALLET_QUEUE_MAX_RETRIES

\* Lines 160-164: { ...queuedItem, retryCount: retryCount + 1, lastError }
RetryItem(item) == [item EXCEPT !.retryCount = item.retryCount + 1]

\* Mutant of Requeue: the retry is not pushed.
Requeue_Dropped(queue, item) == queue

\* Mutant of Requeue: the retry is put at the head of the queue.
Requeue_AtFront(queue, item) == <<item>> \o queue

\* Line 160: walletQueue.push({ ...queuedItem, retryCount: retryCount + 1 })
Requeue(queue, item) == Append(queue, item)

\* Lines 152-166: the timer that will push the retry, with its delay.
RetryTimer(item, jitter) ==
  [item |-> RetryItem(item),
   delay |-> calculateBackoffDelay(item.retryCount,
                                   WALLET_QUEUE_DELAY_BASE_MS,
                                   WALLET_QUEUE_DELAY_MAX_MS, jitter)]

\* await task() resolved (line 144), then the finally block (170-180).
TaskSucceeds(r) ==
  /\ r \in running
  /\ r.step = "run"
  /\ running' = running \ {r}
  /\ processTimers' = processTimers + 1
  /\ history' = HistSettle(history, r.item, TRUE)
  /\ UNCHANGED <<walletQueue, isQueueProcessing, retryTimers, nextEid>>
  /\ UNCHANGED <<fxVars, txVars, bkVars, ceVars, tkVars, mbVars, inVars, waiter, rcVars, hookVars>>

\* await task() rejected: the catch block (145-169), then the finally block.
TaskFails(r) ==
  /\ r \in running
  /\ r.step = "run"
  /\ running' = running \ {r}
  /\ \E jitter \in JitterValues :
       retryTimers' = IF ShouldRetry(r.item.retryCount)
                      THEN retryTimers \cup {RetryTimer(r.item, jitter)}
                      ELSE retryTimers
  /\ processTimers' = processTimers + 1
  /\ history' = HistSettle(history, r.item, FALSE)
  /\ UNCHANGED <<walletQueue, isQueueProcessing, nextEid>>
  /\ UNCHANGED <<fxVars, txVars, bkVars, ceVars, tkVars, mbVars, inVars, waiter, rcVars, hookVars>>

\* The retry timer of lines 159-166 fires.
RetryTimerFires(t) ==
  /\ t \in retryTimers
  /\ retryTimers' = retryTimers \ {t}
  /\ SetQueueState(processWalletQueue(
       [QueueState EXCEPT !.queue = Requeue(walletQueue, t.item)]))
  /\ UNCHANGED <<processTimers, nextEid>>
  /\ UNCHANGED <<fxVars, txVars, bkVars, ceVars, tkVars, mbVars, inVars, waiter, rcVars, hookVars>>

\* The timer of the finally block fires (lines 176-179).
ProcessTimerFires ==
  /\ processTimers > 0
  /\ processTimers' = processTimers - 1
  /\ SetQueueState(processWalletQueue([QueueState EXCEPT !.processing = FALSE]))
  /\ UNCHANGED <<retryTimers, nextEid>>
  /\ UNCHANGED <<fxVars, txVars, bkVars, ceVars, tkVars, mbVars, inVars, waiter, rcVars, hookVars>>

(***************************************************************************)
(* The hook useTransactions (lines 260-824).  AppContent and Dashboard     *)
(* each call it (src/unnamed/part_012 line 93, src/unnamed/part_003 lines  *)
(* 24-30), so there are two instances, each with its own `transactions`    *)
(* and `loading` state, sharing walletQueue, transactionCache and          *)
(* localStorage.  Only AppContent hands classifyTransaction to the UI.     *)
(***************************************************************************)
Hooks == {"app", "dashboard"}

W1 == Wallet("a1", "Main")
W2 == Wallet("a2", "Savings")
\* A stored config whose address is no base58 public key.
W3 == Wallet("0x1234", "Broken")

\* loadWalletConfigs(), in stored order.
WalletConfigs == <<W1, W3, W2>>

\* new PublicKey(address) returns (line 353).
ValidPublicKey(address) == address \in {"a1", "a2", "a3"}

\* Mutant of TaskCatch: the task's catch throws the error again.
TaskCatch_Rethrow(error) == "rejected"

\* Lines 367-369: the task's catch logs the error; the task's promise
\* resolves.
TaskCatch(error) == "resolved"

\* What the RPC node knows: the signatures of each wallet address, its token
\* accounts (by mint), their signatures, and the block time of a signature.
NativeSignatures(wallet) == IF wallet.address = "a1" THEN <<"s1">> ELSE <<"s2">>
TokenMints(wallet) == IF wallet.address = "a1" THEN <<"m1">> ELSE <<>>
TokenSignatures(wallet, mint) == <<"s1">>
BlockTime(sig) == IF sig = "s1" THEN 1 ELSE 2

\* The record built at lines 531-543 (SOL) and 739-751 (SPL).
ChainRecord(sig, mint) ==
  IF mint = "native"
  THEN Candidate(sig, mint, 1, 1, BlockTime(sig))
  ELSE Candidate(sig, mint, 2, -2, BlockTime(sig))

\* localStorage item 'solbooks_transactions': absent, or the saved list.
NoItem == [present |-> FALSE, items |-> <<>>]

\* storage.ts 27-33
saveTransactions(list) == [present |-> TRUE, items |-> list]

\* storage.ts 35-58
loadTransactions(item) == IF ~item.present THEN <<>> ELSE item.items

\* The effect of lines 287-291, run after `transactions` was set to list.
PersistEffect(item, list) == IF Len(list) > 0 THEN saveTransactions(list) ELSE item

\* Mutant of isTransactionCached: no key is ever found.
isTransactionCached_Never(cache, key) == FALSE

\* Lines 215-224 and 226-237.  The model's cache holds at most three keys,
\* far below the size at which line 228 calls cleanupTransactionCache.
isTransactionCached(cache, key) == key \in cache
cacheTransaction(cache, key) == cache \cup {key}

\* One batch of signatures (lines 481-552 and 638-765): a cached signature is
\* skipped, a throwing getTransaction yields null without caching, anything
\* else is cached and returned.  res is [txs, cache].
RECURSIVE FetchBatch(_, _, _, _, _)
FetchBatch(res, sigs, mint, faults, i) ==
  IF i > Len(sigs) THEN res
  ELSE LET key == <<sigs[i], mint>>
       IN  FetchBatch(
             IF isTransactionCached(res.cache, key) THEN res
             ELSE IF "tx" \in faults
                  THEN res
                  ELSE [res EXCEPT !.txs = Append(@, ChainRecord(sigs[i], mint)),
                                   !.cache = cacheTransaction(@, key)],
             sigs, mint, faults, i + 1)

\* fetchSOLTransactions, lines 468-573.
fetchSOLTransactions(cache, wallet, faults) ==
  IF "sigs" \in faults
  THEN [txs |-> <<>>, cache |-> cache]
  ELSE FetchBatch([txs |-> <<>>, cache |-> cache],
                  NativeSignatures(wallet), "native", faults, 1)

\* The loop over token accounts of fetchSPLTransactions, lines 596-784.
RECURSIVE FetchAccounts(_, _, _, _, _)
FetchAccounts(res, wallet, mints, faults, i) ==
  IF i > Len(mints) THEN res
  ELSE FetchAccounts(
         IF "sigs" \in faults
         THEN res
         ELSE FetchBatch(res, TokenSignatures(wallet, mints[i]), mints[i], faults, 1),
         wallet, mints, faults, i + 1)

\* fetchSPLTransactions, lines 575-795.
fetchSPLTransactions(cache, wallet, faults) ==
  IF "accounts" \in faults
  THEN [txs |-> <<>>, cache |-> cache]
  ELSE FetchAccounts([txs |-> <<>>, cache |-> cache],
                     wallet, TokenMints(wallet), faults, 1)

\* Lines 311-336 with no connected wallet: the active configs, in order.
WalletsToFetch(active) == SelectSeq(WalletConfigs, LAMBDA w : w \in active)

\* Lines 349-373: addToWalletQueue for each wallet, with the task of hook h.
RECURSIVE EnqueueAll(_, _, _, _)
EnqueueAll(qs, wallets, h, i) ==
  IF i > Len(wallets) THEN qs
  ELSE EnqueueAll(addToWalletQueue(qs, wallets[i], h, 0), wallets, h, i + 1)

\* fetchAllTransactions() is called on hook h: lines 298-301.
fetchAllTransactions(h) ==
  IF loading[h]
  THEN UNCHANGED vars
  ELSE /\ refreshes < MaxRefreshes
       /\ refreshes' = refreshes + 1
       /\ loading' = [loading EXCEPT ![h] = TRUE]
       /\ pc' = [pc EXCEPT ![h] = "rates"]
       /\ allTransactions' = [allTransactions EXCEPT ![h] = <<>>]
       /\ lastResult' = [lastResult EXCEPT ![h] = "none"]
       /\ UNCHANGED <<storage, transactions, transactionCache, activeWallets>>
       /\ UNCHANGED <<fxVars, txVars, bkVars, ceVars, tkVars, mbVars, inVars, waiter, rcVars, queueVars, queueHistory>>

\* await getExchangeRates() resolved or threw (lines 304-309; either way the
\* call goes on at line 311), then lines 311-373: no wallet ends the call
\* (340-344), else every wallet is handed to the queue.
RatesSettled(h) ==
  /\ pc[h] = "rates"
  /\ IF WalletsToFetch(activeWallets) = <<>>
     THEN /\ loading' = [loading EXCEPT ![h] = FALSE]
          /\ pc' = [pc EXCEPT ![h] = "idle"]
          /\ lastResult' = [lastResult EXCEPT ![h] = "nowallets"]
          /\ UNCHANGED <<walletQueue, isQueueProcessing, running, history>>
     ELSE /\ SetQueueState(EnqueueAll(QueueState, WalletsToFetch(activeWallets), h, 1))
          /\ pc' = [pc EXCEPT ![h] = "waiting"]
          /\ UNCHANGED <<loading, lastResult>>
  /\ UNCHANGED <<storage, transactions, allTransactions, transactionCache,
                 activeWallets, refreshes>>
  /\ UNCHANGED <<fxVars, txVars, bkVars, ceVars, tkVars, mbVars, inVars, waiter, rcVars, retryTimers, processTimers, nextEid>>

\* The task of lines 350-371 up to its 500 ms pause: fetchSOLTransactions
\* returned and its records were pushed to the call's allTransactions.
FetchSOLDone(r) ==
  /\ r \in running
  /\ r.step = "sol"
  /\ ValidPublicKey(r.item.wallet.address)
  /\ \E faults \in SUBSET {"sigs", "tx"} :
       LET h == r.item.task
           res == fetchSOLTransactions(transactionCache, r.item.wallet, faults)
       IN  /\ allTransactions' = [allTransactions EXCEPT ![h] = @ \o res.txs]
           /\ transactionCache' = res.cache
  /\ running' = (running \ {r}) \cup {[r EXCEPT !.step = "spl"]}
  /\ UNCHANGED <<storage, transactions, loading, pc, lastResult, activeWallets,
                 refreshes>>
  /\ UNCHANGED <<fxVars, txVars, bkVars, ceVars, tkVars, mbVars, inVars, waiter, rcVars, walletQueue, isQueueProcessing, retryTimers,
                 processTimers, queueHistory>>

\* The task of a wallet whose address new PublicKey rejects (line 353): the
\* throw is caught at line 367, nothing was fetched, the task resolves and
\* the finally block of processWalletQueue runs (170-180).  Were the task to
\* reject, the catch block of lines 145-169 would run first.
PublicKeyThrows(r) ==
  /\ r \in running
  /\ r.step = "sol"
  /\ ~ValidPublicKey(r.item.wallet.address)
  /\ running' = running \ {r}
  /\ processTimers' = processTimers + 1
  /\ IF TaskCatch("Invalid public key input") = "resolved"
     THEN /\ history' = HistSettle(history, r.item, TRUE)
          /\ UNCHANGED retryTimers
     ELSE /\ history' = HistSettle(history, r.item, FALSE)
          /\ \E jitter \in JitterValues :
               retryTimers' = IF ShouldRetry(r.item.retryCount)
                              THEN retryTimers \cup {RetryTimer(r.item, jitter)}
                              ELSE retryTimers
  /\ UNCHANGED <<walletQueue, isQueueProcessing, nextEid>>
  /\ UNCHANGED <<fxVars, txVars, bkVars, ceVars, tkVars, mbVars, inVars, waiter, rcVars, hookVars>>

\* The rest of the task: fetchSPLTransactions returned, its records were
\* pushed, the task resolved (line 144) and the finally block ran (170-180).
FetchSPLDone(r) ==
  /\ r \in running
  /\ r.step = "spl"
  /\ \E faults \in SUBSET {"accounts", "sigs", "tx"} :
       LET h == r.item.task
           res == fetchSPLTransactions(transactionCache, r.item.wallet, faults)
       IN  /\ allTransactions' = [allTransactions EXCEPT ![h] = @ \o res.txs]
           /\ transactionCache' = res.cache
  /\ running' = running \ {r}
  /\ processTimers' = processTimers + 1
  /\ history' = HistSettle(history, r.item, TRUE)
  /\ UNCHANGED <<storage, transactions, loading, pc, lastResult, activeWallets,
                 refreshes>>
  /\ UNCHANGED <<fxVars, txVars, bkVars, ceVars, tkVars, mbVars, inVars, waiter, rcVars, walletQueue, isQueueProcessing, retryTimers, nextEid>>

\* Mutant of QueueFinished: the length test is negated.
QueueFinished_NonEmpty(queue, processing) == queue # <<>> /\ ~processing

\* Line 378: if (walletQueue.length === 0 && !isQueueProcessing)
QueueFinished(queue, processing) == queue = <<>> /\ ~processing

\* How a merge ended: "kept" when a fetched record met a classified stored
\* record with its key (lines 392-399 copied a user's classification).
MergeOutcome(newTxs, existing) ==
  IF \E i \in 1..Len(newTxs) :
       /\ FindIndex(existing, newTxs[i]) # 0
       /\ existing[FindIndex(existing, newTxs[i])].classified
  THEN "kept"
  ELSE "merged"

\* The interval of lines 376-383 finds the queue finished; the merge of lines
\* 389-425, the finally block (428-430) and the effect of lines 287-291.
QueueIdlePoll(h) ==
  /\ pc[h] = "waiting"
  /\ QueueFinished(walletQueue, isQueueProcessing)
  /\ LET uniqueTransactions == Reconcile(allTransactions[h], loadTransactions(storage))
     IN  /\ transactions' = [transactions EXCEPT ![h] = uniqueTransactions]
         /\ storage' = PersistEffect(storage, uniqueTransactions)
  /\ loading' = [loading EXCEPT ![h] = FALSE]
  /\ pc' = [pc EXCEPT ![h] = "idle"]
  /\ allTransactions' = [allTransactions EXCEPT ![h] = <<>>]
  /\ lastResult' = [lastResult EXCEPT ![h] =
                      MergeOutcome(allTransactions[h], loadTransactions(storage))]
  /\ UNCHANGED <<transactionCache, activeWallets, refreshes>>
  /\ UNCHANGED <<fxVars, txVars, bkVars, ceVars, tkVars, mbVars, inVars, waiter, rcVars, queueVars, queueHistory>>

\* Mutant of ClassifyIn: records are matched by signature.
ClassifyIn_BySignature(list, id, category, notes) ==
  [i \in 1..Len(list) |->
     IF list[i].signature = id[1] THEN Classified(list[i], category, notes) ELSE list[i]]

\* prev.map(tx => tx.id === id ? {...tx, category, notes, classified: true} : tx)
ClassifyIn(list, id, category, notes) ==
  [i \in 1..Len(list) |->
     IF list[i].id = id THEN Classified(list[i], category, notes) ELSE list[i]]

\* classifyTransaction(id, category, notes) on hook h (lines 799-807), and the
\* effect of lines 287-291.
classifyTransaction(h, id, category, notes) ==
  /\ transactions' = [transactions EXCEPT ![h] = ClassifyIn(@, id, category, notes)]
  /\ storage' = PersistEffect(storage, ClassifyIn(transactions[h], id, category, notes))
  /\ UNCHANGED <<loading, pc, allTransactions, lastResult, transactionCache,
                 activeWallets, refreshes>>
  /\ UNCHANGED <<fxVars, txVars, bkVars, ceVars, tkVars, mbVars, inVars, waiter, rcVars, queueVars, queueHistory>>

\* What the UI passes to classifyTransaction.
Classifications == {<<"Salary", "memo">>, <<"Rent", NoNotes>>}

\* toggleWallet of Settings and the effect that saves the configs.
ToggleWallet(w) ==
  /\ activeWallets' = IF w \in activeWallets
                      THEN activeWallets \ {w}
                      ELSE activeWallets \cup {w}
  /\ UNCHANGED <<storage, transactions, loading, pc, allTransactions, lastResult,
                 transactionCache, refreshes>>
  /\ UNCHANGED <<fxVars, txVars, bkVars, ceVars, tkVars, mbVars, inVars, waiter, rcVars, queueVars, queueHistory>>

\* The page is loaded again: the module-level state is initialised anew
\* (lines 125-126, 213) and every hook instance mounts (lines 261-262 and
\* 271-274, then the effect of lines 287-291).
Reload ==
  /\ walletQueue' = <<>>
  /\ isQueueProcessing' = FALSE
  /\ running' = {}
  /\ retryTimers' = {}
  /\ processTimers' = 0
  /\ transactionCache' = {}
  /\ transactions' = [h \in Hooks |-> loadTransactions(storage)]
  /\ storage' = PersistEffect(storage, loadTransactions(storage))
  /\ loading' = [h \in Hooks |-> FALSE]
  /\ pc' = [h \in Hooks |-> "idle"]
  /\ allTransactions' = [h \in Hooks |-> <<>>]
  /\ lastResult' = [h \in Hooks |-> "none"]
  /\ UNCHANGED <<activeWallets, refreshes>>
  /\ UNCHANGED <<fxVars, txVars, bkVars, ceVars, tkVars, mbVars, inVars, waiter, rcVars, queueHistory>>

(***************************************************************************)
(* The price oracle client and its cache (src/src/utils/currency.ts).      *)
(*                                                                         *)
(* A JavaScript number that is a price is kept in fixed point:             *)
(* whole + frac * 10^-8 with 0 <= frac < 10^8.  The other things a `price` *)
(* field can be are NaN, a non-number, or nothing (no entry for the mint). *)
(***************************************************************************)
Usd(whole, frac) == [kind |-> "number", whole |-> whole, frac |-> frac]
NaNPrice == [kind |-> "NaN", whole |-> 0, frac |-> 0]
StringPrice == [kind |-> "string", whole |-> 0, frac |-> 0]
NoEntry == [kind |-> "undefined", whole |-> 0, frac |-> 0]

\* a <= b on numbers
Leq(a, b) == a.whole < b.whole \/ (a.whole = b.whole /\ a.frac <= b.frac)

\* security-config.ts lines 13-14
MIN_PRICE_VALUE == Usd(0, 10)
MAX_PRICE_VALUE == Usd(1000000, 0)

\* currency.ts lines 39-48
FALLBACK_EXCHANGE_RATES ==
  "SOL" :> Usd(100, 0) @@ "USDC" :> Usd(1, 0) @@ "USDT" :> Usd(1, 0)
  @@ "mSOL" :> Usd(98, 0) @@ "ETH" :> Usd(2500, 0) @@ "BTC" :> Usd(45000, 0)
  @@ "BONK" :> Usd(0, 2500) @@ "JUP" :> Usd(0, 75000000)

\* currency.ts lines 51-60
TOKEN_MINTS ==
  "SOL" :> "So11111111111111111111111111111111111111112"
  @@ "USDC" :> "EPjFWdd5AufqSSqeM2qN1xzybapC8G4wEGGkZwyTDt1v"
  @@ "USDT" :> "Es9vMFrzaCERmJfrF4H2FYD4KCoNkY11McCe8BenwNYB"
  @@ "mSOL" :> "mSoLzYCxHdYgdzU16g5QSh3i5K3z3KZK7ytfqcJm7So"
  @@ "ETH" :> "7vfCXTUXx5WJV5JADk17DUJ4ksgau7utNKj4b963voxs"
  @@ "BTC" :> "3NZ9JMVBmGAqocybic2c7LQCJScmgsAZ6vQqTDzcqmJh"
  @@ "BONK" :> "DezXAZ8z7PnrnRJjz3wXBoRgixCa6xjnB7YaB1pPB263"
  @@ "JUP" :> "JUPyiwrYJFskUPiHa7hkeR8VUtAeFoSYbKedZNsDvCN"

\* Object.entries(TOKEN_MINTS), line 151: the symbols the rates are built for.
Symbols == DOMAIN TOKEN_MINTS

\* FALLBACK_EXCHANGE_RATES[symbol] || 0, lines 163 and 165.
FallbackRate(symbol) ==
  IF symbol \in DOMAIN FALLBACK_EXCHANGE_RATES
  THEN FALLBACK_EXCHANGE_RATES[symbol]
  ELSE Usd(0, 0)

\* Object.values(TOKEN_MINTS), line 99: the ids of the request.
RequestedMints == {TOKEN_MINTS[s] : s \in Symbols}

\* An empty rates object.
EmptyRates == [s \in {} |-> NoEntry]

\* Lines 155-159: priceData && typeof priceData.price === 'number' &&
\* !isNaN(price) && price >= MIN_PRICE_VALUE && price <= MAX_PRICE_VALUE
ValidPrice(priceData) ==
  /\ priceData.kind = "number"
  /\ Leq(MIN_PRICE_VALUE, priceData)
  /\ Leq(priceData, MAX_PRICE_VALUE)

\* Mutant of RatesFrom: a symbol without a valid price gets no key.
RatesFrom_ValidOnly(data) ==
  [s \in {x \in Symbols : ValidPrice(data[TOKEN_MINTS[x]])} |-> data[TOKEN_MINTS[s]]]

\* Mutant of RatesFrom: one invalid price discards the whole answer.
RatesFrom_AllOrNothing(data) ==
  IF \A s \in Symbols : ValidPrice(data[TOKEN_MINTS[s]])
  THEN [s \in Symbols |-> data[TOKEN_MINTS[s]]]
  ELSE FALLBACK_EXCHANGE_RATES

\* Lines 150-168: the rates built from a response body that passed
\* validateJupiterResponse.
RatesFrom(data) ==
  [s \in Symbols |->
     IF ValidPrice(data[TOKEN_MINTS[s]])
     THEN data[TOKEN_MINTS[s]]
     ELSE FallbackRate(s)]

\* What one attempt ends with: a returned map, a retry, or a thrown error.
Returned(rates) == [kind |-> "return", rates |-> rates, error |-> "none"]
Retry == [kind |-> "retry", rates |-> EmptyRates, error |-> "none"]
Thrown(error) == [kind |-> "throw", rates |-> EmptyRates, error |-> error]

\* Lines 111-168: the try block, for each thing the oracle can do.  A body
\* whose `data` is not an object fails validateJupiterResponse (lines 65-91);
\* single bad entries do not.
OnResponse(resp, retryCount) ==
  CASE resp.kind = "networkError" -> Thrown("TypeError")
    [] resp.kind = "timeout" -> Thrown("AbortError")
    [] resp.kind = "http429" ->
         IF retryCount < JUPITER_MAX_RETRIES THEN Retry ELSE Thrown("Error")
    [] resp.kind = "http500" -> Thrown("Error")
    [] resp.kind = "contentType" -> Thrown("Error")
    [] resp.kind = "malformedBody" -> Thrown("SyntaxError")
    [] resp.kind = "badStructure" -> Thrown("Error")
    [] resp.kind = "ok" -> Returned(RatesFrom(resp.data))

\* Mutant of OnError: one retry more than JUPITER_MAX_RETRIES.
OnError_OneMore(error, retryCount) ==
  IF error = "AbortError" THEN Returned(FALLBACK_EXCHANGE_RATES)
  ELSE IF retryCount <= JUPITER_MAX_RETRIES THEN Retry
  ELSE Returned(FALLBACK_EXCHANGE_RATES)

\* Mutant of OnError: after the last retry the error is thrown again.
OnError_Rethrow(error, retryCount) ==
  IF error = "AbortError" THEN Returned(FALLBACK_EXCHANGE_RATES)
  ELSE IF retryCount < JUPITER_MAX_RETRIES THEN Retry
  ELSE Thrown(error)

\* Lines 169-189: the catch block.
OnError(error, retryCount) ==
  IF error = "AbortError" THEN Returned(FALLBACK_EXCHANGE_RATES)
  ELSE IF retryCount < JUPITER_MAX_RETRIES THEN Retry
  ELSE Returned(FALLBACK_EXCHANGE_RATES)

\* One frame of fetchExchangeRatesFromJupiter(retryCount), lines 96-190, up
\* to its return or its recursive call.
Attempt(resp, retryCount) ==
  IF OnResponse(resp, retryCount).kind = "throw"
  THEN OnError(OnResponse(resp, retryCount).error, retryCount)
  ELSE OnResponse(resp, retryCount)

\* Lines 29-33.
EmptyCache == [rates |-> EmptyRates, lastUpdated |-> 0, size |-> 0]

\* cleanupCache, lines 195-204.
cleanupCache(cache) ==
  IF cache.size > EXCHANGE_RATE_CACHE_MAX_SIZE THEN EmptyCache ELSE cache

\* Mutant of CacheFresh: the age test is inverted.
CacheFresh_AgeInverted(cache, t) ==
  /\ cache.lastUpdated > 0
  /\ t - cache.lastUpdated > EXCHANGE_RATE_CACHE_TTL_MS
  /\ Cardinality(DOMAIN cache.rates) > 0

\* Lines 216-218.
CacheFresh(cache, t) ==
  /\ cache.lastUpdated > 0
  /\ t - cache.lastUpdated < EXCHANGE_RATE_CACHE_TTL_MS
  /\ Cardinality(DOMAIN cache.rates) > 0

\* Mutant of StoreRates: the timestamp is not set.
StoreRates_NoTimestamp(rates, t) ==
  [rates |-> rates, lastUpdated |-> 0, size |-> Cardinality(DOMAIN rates)]

\* Lines 226-230: exchangeRateCache = { rates, lastUpdated: now,
\* size: Object.keys(rates).length }
StoreRates(rates, t) ==
  [rates |-> rates, lastUpdated |-> t, size |-> Cardinality(DOMAIN rates)]

Pending == [state |-> "pending", rates |-> EmptyRates]
Resolved(rates) == [state |-> "resolved", rates |-> rates]
Rejected == [state |-> "rejected", rates |-> EmptyRates]

\* What the oracle can answer.  Every symbol has a price of its own; an
\* answer is all of them, none of them, garbage for all of them, or all of
\* them but one entry, which is missing, malformed, out of range or on a limit.
Quote(s) == Usd(FALLBACK_EXCHANGE_RATES[s].whole + 1, FALLBACK_EXCHANGE_RATES[s].frac)
NoBody == [m \in {} |-> NoEntry]
NoResponse == [kind |-> "none", data |-> NoBody]
CacheHit == [kind |-> "cached", data |-> NoBody]
SymbolOf(mint) == CHOOSE s \in Symbols : TOKEN_MINTS[s] = mint
AllQuotes == [m \in RequestedMints |-> Quote(SymbolOf(m))]
BadEntries ==
  {NoEntry, NaNPrice, StringPrice, Usd(0, 9), Usd(1000000, 1), Usd(0, 0), Usd(-1, 0)}
LimitEntries == {MIN_PRICE_VALUE, MAX_PRICE_VALUE}
OracleData ==
  {AllQuotes, [m \in RequestedMints |-> NoEntry], [m \in RequestedMints |-> NaNPrice]}
  \cup {[AllQuotes EXCEPT ![TOKEN_MINTS[s]] = e] :
          s \in Symbols, e \in BadEntries \cup LimitEntries}

FailureKinds ==
  {"http500", "http429", "contentType", "malformedBody", "badStructure",
   "networkError", "timeout"}
Responses ==
  {[kind |-> "ok", data |-> d] : d \in OracleData}
  \cup {[kind |-> k, data |-> NoBody] : k \in FailureKinds}

\* getExchangeRates() is called (lines 209-223): a fresh cache is returned,
\* else the first request goes out.
getExchangeRates ==
  /\ fxPc \in {"idle", "done"}
  /\ fxCalls < MaxRateCalls
  /\ fxCalls' = fxCalls + 1
  /\ exchangeRateCache' = cleanupCache(exchangeRateCache)
  /\ fxNow' = now
  /\ fxRetryCount' = 0
  /\ IF CacheFresh(cleanupCache(exchangeRateCache), now)
     THEN /\ fxPc' = "done"
          /\ fxSettled' = Resolved(cleanupCache(exchangeRateCache).rates)
          /\ fxRequests' = 0
          /\ fxLast' = CacheHit
     ELSE /\ fxPc' = "fetching"
          /\ fxSettled' = Pending
          /\ fxRequests' = 1
          /\ fxLast' = NoResponse
  /\ UNCHANGED <<now, fxDelay, fxTicks>>
  /\ UNCHANGED <<txVars, bkVars, ceVars, tkVars, mbVars, inVars, waiter, rcVars, queueVars, queueHistory, hookVars>>

\* The request of lines 111-118 settled in one of the ways of Responses.  A
\* returned map goes up the chain of recursive calls to getExchangeRates,
\* which stores it (lines 226-232).
OracleSettles(resp) ==
  /\ fxPc = "fetching"
  /\ fxLast' = resp
  /\ LET r == Attempt(resp, fxRetryCount)
     IN  CASE r.kind = "retry" ->
                /\ fxPc' = "backoff"
                /\ \E jitter \in JitterValues :
                     fxDelay' = calculateBackoffDelay(fxRetryCount,
                                  JUPITER_RETRY_DELAY_BASE_MS,
                                  JUPITER_RETRY_DELAY_MAX_MS, jitter)
                /\ UNCHANGED <<exchangeRateCache, fxSettled>>
           [] r.kind = "return" ->
                /\ fxPc' = "done"
                /\ exchangeRateCache' = StoreRates(r.rates, fxNow)
                /\ fxSettled' = Resolved(r.rates)
                /\ fxDelay' = 0
           [] r.kind = "throw" ->
                /\ fxPc' = "done"
                /\ fxSettled' = Rejected
                /\ fxDelay' = 0
                /\ UNCHANGED exchangeRateCache
  /\ UNCHANGED <<now, fxRetryCount, fxNow, fxRequests, fxCalls, fxTicks>>
  /\ UNCHANGED <<txVars, bkVars, ceVars, tkVars, mbVars, inVars, waiter, rcVars, queueVars, queueHistory, hookVars>>

\* The backoff delay of lines 125-131 / 174-180 has passed: the recursive
\* call fetchExchangeRatesFromJupiter(retryCount + 1) sends its request.
BackoffElapsed ==
  /\ fxPc = "backoff"
  /\ fxPc' = "fetching"
  /\ fxRetryCount' = fxRetryCount + 1
  /\ fxRequests' = fxRequests + 1
  /\ fxDelay' = 0
  /\ UNCHANGED <<exchangeRateCache, now, fxNow, fxSettled, fxLast, fxCalls, fxTicks>>
  /\ UNCHANGED <<txVars, bkVars, ceVars, tkVars, mbVars, inVars, waiter, rcVars, queueVars, queueHistory, hookVars>>

\* Time passes.
Tick(d) ==
  /\ fxTicks < MaxTicks
  /\ fxTicks' = fxTicks + 1
  /\ now' = now + d
  /\ UNCHANGED <<exchangeRateCache, fxPc, fxRetryCount, fxNow, fxSettled, fxLast,
                 fxRequests, fxDelay, fxCalls>>
  /\ UNCHANGED <<txVars, bkVars, ceVars, tkVars, mbVars, inVars, waiter, rcVars, queueVars, queueHistory, hookVars>>

(***************************************************************************)
(* initializeExchangeRates (currency.ts lines 350-356), which App calls    *)
(* once when it mounts: its own call of getExchangeRates, with its own     *)
(* now, retryCount and chain of requests, on the shared exchangeRateCache. *)
(***************************************************************************)
\* initializeExchangeRates() is called: getExchangeRates runs up to its
\* await (lines 210-223).
initializeExchangeRates ==
  /\ inPc = "idle"
  /\ exchangeRateCache' = cleanupCache(exchangeRateCache)
  /\ inNow' = now
  /\ inRetryCount' = 0
  /\ IF CacheFresh(cleanupCache(exchangeRateCache), now)
     THEN /\ inPc' = "done"
          /\ inRequests' = 0
     ELSE /\ inPc' = "fetching"
          /\ inRequests' = 1
  /\ UNCHANGED <<now, fxPc, fxRetryCount, fxNow, fxSettled, fxLast, fxRequests,
                 fxDelay, fxCalls, fxTicks>>
  /\ UNCHANGED <<txVars, bkVars, ceVars, tkVars, mbVars, waiter, rcVars, queueVars, queueHistory, hookVars>>

\* That call's request settled.  A returned map is stored by lines 226-230
\* under the call's own now; a throw would end in the catch of line 353.
InitSettles(resp) ==
  /\ inPc = "fetching"
  /\ LET r == Attempt(resp, inRetryCount)
     IN  CASE r.kind = "retry" ->
                /\ inPc' = "backoff"
                /\ UNCHANGED exchangeRateCache
           [] r.kind = "return" ->
                /\ inPc' = "done"
                /\ exchangeRateCache' = StoreRates(r.rates, inNow)
           [] r.kind = "throw" ->
                /\ inPc' = "done"
                /\ UNCHANGED exchangeRateCache
  /\ UNCHANGED <<now, inRetryCount, inNow, inRequests>>
  /\ UNCHANGED <<fxPc, fxRetryCount, fxNow, fxSettled, fxLast, fxRequests,
                 fxDelay, fxCalls, fxTicks>>
  /\ UNCHANGED <<txVars, bkVars, ceVars, tkVars, mbVars, waiter, rcVars, queueVars, queueHistory, hookVars>>

\* That call's backoff delay has passed: its next request goes out.
InitBackoffElapsed ==
  /\ inPc = "backoff"
  /\ inPc' = "fetching"
  /\ inRetryCount' = inRetryCount + 1
  /\ inRequests' = inRequests + 1
  /\ UNCHANGED <<exchangeRateCache, now, inNow>>
  /\ UNCHANGED <<fxPc, fxRetryCount, fxNow, fxSettled, fxLast, fxRequests,
                 fxDelay, fxCalls, fxTicks>>
  /\ UNCHANGED <<txVars, bkVars, ceVars, tkVars, mbVars, waiter, rcVars, queueVars, queueHistory, hookVars>>

(***************************************************************************)
(* One batch of fetchSOLTransactions, request by request (lines 481-552).  *)
(***************************************************************************)
\* The signatures getSignaturesForAddress returned for the wallet, one batch.
BatchSignatures == <<"s1", "s2">>

Abs(x) == IF x < 0 THEN 0 - x ELSE x

\* What connection.getTransaction can resolve with: null, a transaction
\* without meta, one whose account keys lack the wallet, or one in which the
\* wallet's balance goes from pre to post lamports.
NullTx == [kind |-> "null", pre |-> 0, post |-> 0]
NoMetaTx == [kind |-> "noMeta", pre |-> 0, post |-> 0]
ForeignTx == [kind |-> "foreign", pre |-> 0, post |-> 0]
Transfer(pre, post) == [kind |-> "transfer", pre |-> pre, post |-> post]
Balances == {0, 999, 1000, 1999, 2000}
RpcTransactions ==
  {NullTx, NoMetaTx, ForeignTx} \cup {Transfer(a, b) : a, b \in Balances}

\* Mutant of IsDust: a change of exactly the threshold is dropped too.
IsDust_Inclusive(balanceChange) == Abs(balanceChange) <= DUST_THRESHOLD

\* Line 521: Math.abs(balanceChange) < 1000
IsDust(balanceChange) == Abs(balanceChange) < DUST_THRESHOLD

\* Line 526: Math.abs(balanceChange / 1e9), kept as a fraction.
LamportsToSol(balanceChange) == [num |-> Abs(balanceChange), den |-> LAMPORTS_PER_SOL]

\* Lines 500-543: what the callback returns for the transaction it got;
\* <<>> is null.  Every path caches the signature.
ProcessTransaction(sig, tx) ==
  IF tx.kind \in {"null", "noMeta"} THEN <<>>
  ELSE IF tx.kind = "foreign" THEN <<>>
  ELSE IF IsDust(tx.post - tx.pre) THEN <<>>
  ELSE <<Candidate(sig, "native", LamportsToSol(tx.post - tx.pre),
                   tx.post - tx.pre, BlockTime(sig))>>

NoTimer == [state |-> "none", delay |-> 0]
\* Lines 489-492: setTimeout(() => controller.abort(), RPC_REQUEST_TIMEOUT_MS)
ArmedTimer == [state |-> "armed", delay |-> RPC_REQUEST_TIMEOUT_MS]
\* Line 498: clearTimeout(timeoutId)
clearTimeout(timer) ==
  IF timer.state = "armed" THEN [timer EXCEPT !.state = "cleared"] ELSE timer

Unsent ==
  [state |-> "unsent", timer |-> NoTimer, aborted |-> FALSE, tx |-> NullTx,
   result |-> <<>>]
\* Lines 484-486: the signature is cached, the callback returns null.
Skipped == [Unsent EXCEPT !.state = "skipped"]
\* Lines 489-496: the timer is set and getTransaction is called; the
\* controller's signal is not among its arguments.
Sent == [Unsent EXCEPT !.state = "pending", !.timer = ArmedTimer]

Settled(req) == req.state \in {"skipped", "answered", "threw"}

RECURSIVE Collect(_, _)
\* batchResults.filter(Boolean), in the order of the batch (line 554-555).
Collect(reqs, i) ==
  IF i > Len(BatchSignatures) THEN <<>>
  ELSE reqs[BatchSignatures[i]].result \o Collect(reqs, i + 1)

\* batch.map(async (sig) => ...) runs every callback up to its first await.
StartBatch ==
  /\ txPhase \in {"idle", "done"}
  /\ txRuns < MaxBatchRuns
  /\ txRuns' = txRuns + 1
  /\ txPhase' = "awaiting"
  /\ txOut' = <<>>
  /\ txReq' = [sig \in DOMAIN txReq |->
                 IF isTransactionCached(transactionCache, <<sig, "native">>)
                 THEN Skipped ELSE Sent]
  /\ UNCHANGED <<transactionCache, hookRest>>
  /\ UNCHANGED <<fxVars, bkVars, ceVars, tkVars, mbVars, inVars, waiter, rcVars, queueVars, queueHistory>>

\* getTransaction resolves with tx: lines 498-543.
RpcAnswers(sig, tx) ==
  /\ txReq[sig].state = "pending"
  /\ txReq' = [txReq EXCEPT ![sig] =
                 [@ EXCEPT !.state = "answered",
                           !.timer = clearTimeout(@),
                           !.tx = tx,
                           !.result = ProcessTransaction(sig, tx)]]
  /\ transactionCache' = cacheTransaction(transactionCache, <<sig, "native">>)
  /\ UNCHANGED <<txPhase, txOut, txRuns, hookRest>>
  /\ UNCHANGED <<fxVars, bkVars, ceVars, tkVars, mbVars, inVars, waiter, rcVars, queueVars, queueHistory>>

\* Mutant of OnRpcError: the catch caches the signature.
OnRpcError_Cached(cache, key) == cacheTransaction(cache, key)

\* The catch blocks of lines 544-551 and 757-764 log and return null; the
\* cache is as it was.
OnRpcError(cache, key) == cache

\* getTransaction rejects: the catch of lines 544-551 returns null; the
\* clearTimeout of line 498 is not reached.
RpcThrows(sig) ==
  /\ txReq[sig].state = "pending"
  /\ txReq' = [txReq EXCEPT ![sig] = [@ EXCEPT !.state = "threw", !.result = <<>>]]
  /\ transactionCache' = OnRpcError(transactionCache, <<sig, "native">>)
  /\ UNCHANGED <<txPhase, txOut, txRuns, hookRest>>
  /\ UNCHANGED <<fxVars, bkVars, ceVars, tkVars, mbVars, inVars, waiter, rcVars, queueVars, queueHistory>>

\* The timer of lines 490-492 fires: controller.abort().  Nothing listens to
\* the controller's signal, so the request stays as it is.
TimeoutFires(sig) ==
  /\ txReq[sig].timer.state = "armed"
  /\ txReq' = [txReq EXCEPT ![sig] =
                 [@ EXCEPT !.timer = [@ EXCEPT !.state = "fired"],
                           !.aborted = TRUE]]
  /\ UNCHANGED <<txPhase, txOut, txRuns, transactionCache, hookRest>>
  /\ UNCHANGED <<fxVars, bkVars, ceVars, tkVars, mbVars, inVars, waiter, rcVars, queueVars, queueHistory>>

\* await Promise.all(batchPromises) resumes: lines 554-555.
BatchSettles ==
  /\ txPhase = "awaiting"
  /\ \A sig \in DOMAIN txReq : Settled(txReq[sig])
  /\ txPhase' = "done"
  /\ txOut' = Collect(txReq, 1)
  /\ UNCHANGED <<txReq, txRuns, transactionCache, hookRest>>
  /\ UNCHANGED <<fxVars, bkVars, ceVars, tkVars, mbVars, inVars, waiter, rcVars, queueVars, queueHistory>>

(***************************************************************************)
(* transactionCache with its entries (lines 204-257).  The Map is the      *)
(* sequence of its entries in insertion order, each with its key; the      *)
(* limit at which cacheTransaction cleans up is a parameter, so that the   *)
(* cache can be filled within MaxCacheSize entries.                        *)
(***************************************************************************)
CacheEntry(key, timestamp, t) ==
  [key |-> key, timestamp |-> timestamp, accessCount |-> 1, lastAccessed |-> t]

CacheKeysOf(cache) == {cache[i].key : i \in DOMAIN cache}
CacheIndex(cache, key) == CHOOSE i \in DOMAIN cache : cache[i].key = key

\* Mutant of TouchEntry: a hit leaves the entry as it is.
TouchEntry_Untouched(entry, t) == entry

\* Lines 217-218: entry.accessCount++; entry.lastAccessed = Date.now()
TouchEntry(entry, t) ==
  [entry EXCEPT !.accessCount = @ + 1, !.lastAccessed = t]

\* Lines 213-224, at Date.now() = t: the returned boolean and the Map after.
isTransactionCachedAt(cache, signature, t) ==
  IF signature \in CacheKeysOf(cache)
  THEN [hit |-> TRUE,
        cache |-> [cache EXCEPT ![CacheIndex(cache, signature)] = TouchEntry(@, t)]]
  ELSE [hit |-> FALSE, cache |-> cache]

\* Lines 245-246: accessCount * (now - lastAccessed)
Score(entry, t) == entry.accessCount * (t - entry.lastAccessed)

\* Mutant of InsertByScore: ascending order of score.
RECURSIVE InsertByScore_Ascending(_, _, _)
InsertByScore_Ascending(sorted, entry, t) ==
  IF sorted = <<>> THEN <<entry>>
  ELSE IF Score(Head(sorted), t) <= Score(entry, t)
       THEN <<Head(sorted)>> \o InsertByScore_Ascending(Tail(sorted), entry, t)
       ELSE <<entry>> \o sorted

\* One step of the stable sort of lines 244-248, comparator scoreB - scoreA:
\* entry goes behind every element whose score is not lower.
RECURSIVE InsertByScore(_, _, _)
InsertByScore(sorted, entry, t) ==
  IF sorted = <<>> THEN <<entry>>
  ELSE IF Score(Head(sorted), t) >= Score(entry, t)
       THEN <<Head(sorted)>> \o InsertByScore(Tail(sorted), entry, t)
       ELSE <<entry>> \o sorted

RECURSIVE SortByScore(_, _, _)
SortByScore(sorted, entries, t) ==
  IF entries = <<>> THEN sorted
  ELSE SortByScore(InsertByScore(sorted, Head(entries), t), Tail(entries), t)

\* Line 251: Math.floor(entries.length * 0.25)
RemoveCount(n) == n \div 4

\* Lines 252-254: the keys of the last removeCount entries of the sorted array.
EvictedKeys(cache, t) ==
  LET sorted == SortByScore(<<>>, cache, t)
      n == Len(sorted)
  IN  {sorted[i].key : i \in (n - RemoveCount(n) + 1)..n}

\* Lines 239-257, at Date.now() = t: Map.delete keeps the others in order.
cleanupTransactionCache(cache, t) ==
  SelectSeq(cache, LAMBDA e : e.key \notin EvictedKeys(cache, t))

\* Mutant of NeedsCleanup: the size test is left out.
NeedsCleanup_Never(size, maxSize) == FALSE

\* Line 228: transactionCache.size >= TRANSACTION_CACHE_MAX_SIZE
NeedsCleanup(size, maxSize) == size >= maxSize

\* Line 232: Map.set replaces the value of a key that is present, in place,
\* and appends a new key.
MapSet(cache, entry) ==
  IF entry.key \in CacheKeysOf(cache)
  THEN [cache EXCEPT ![CacheIndex(cache, entry.key)] = entry]
  ELSE Append(cache, entry)

\* Lines 226-237, at Date.now() = t, with the limit maxSize.
cacheTransactionAt(cache, signature, timestamp, t, maxSize) ==
  MapSet(IF NeedsCleanup(Len(cache), maxSize)
         THEN cleanupTransactionCache(cache, t)
         ELSE cache,
         CacheEntry(signature, timestamp, t))

\* The operations compare keys for equality only, so which new key a caller
\* records makes no difference: it is the first one the Map does not hold.
CacheKeyOrder == <<"k1", "k2", "k3", "k4", "k5", "k6">>
CacheKeys == {CacheKeyOrder[i] : i \in DOMAIN CacheKeyOrder}
FirstAbsent(cache) ==
  LET absent == {i \in DOMAIN CacheKeyOrder : CacheKeyOrder[i] \notin CacheKeysOf(cache)}
  IN  IF absent = {} THEN "none"
      ELSE CacheKeyOrder[CHOOSE i \in absent : \A j \in absent : i <= j]
NoCacheOp == [op |-> "none", key |-> "none", hit |-> FALSE, evicted |-> {}]

\* A caller asks isTransactionCached(key).
CacheHas(key) ==
  /\ key \in CacheKeysOf(cacheEntries) \/ key = FirstAbsent(cacheEntries)
  /\ LET r == isTransactionCachedAt(cacheEntries, key, cacheNow)
     IN  /\ r.hit => cacheEntries[CacheIndex(cacheEntries, key)].accessCount < MaxAccessCount
         /\ cacheEntries' = r.cache
         /\ cacheLast' = [op |-> "has", key |-> key, hit |-> r.hit, evicted |-> {}]
  /\ UNCHANGED cacheNow
  /\ UNCHANGED <<fxVars, txVars, bkVars, inVars, waiter, tkVars, mbVars, rcVars,
                 queueVars, queueHistory, hookVars>>

\* A caller calls cacheTransaction(key, Date.now()).
CacheRecord(key) ==
  /\ key \in CacheKeysOf(cacheEntries) \/ key = FirstAbsent(cacheEntries)
  /\ cacheEntries' = cacheTransactionAt(cacheEntries, key, cacheNow, cacheNow,
                                        MaxCacheSize)
  /\ cacheLast' = [op |-> "record", key |-> key, hit |-> FALSE,
                   evicted |-> IF NeedsCleanup(Len(cacheEntries), MaxCacheSize)
                               THEN CacheKeysOf(cacheEntries)
                                      \ CacheKeysOf(cleanupTransactionCache(cacheEntries, cacheNow))
                               ELSE {}]
  /\ UNCHANGED cacheNow
  /\ UNCHANGED <<fxVars, txVars, bkVars, inVars, waiter, tkVars, mbVars, rcVars,
                 queueVars, queueHistory, hookVars>>

\* A millisecond passes.
CacheTick ==
  /\ cacheNow < MaxCacheClock
  /\ cacheNow' = cacheNow + 1
  /\ UNCHANGED <<cacheEntries, cacheLast>>
  /\ UNCHANGED <<fxVars, txVars, bkVars, inVars, waiter, tkVars, mbVars, rcVars,
                 queueVars, queueHistory, hookVars>>

\* new Map() (line 211).
CacheIdle ==
  /\ cacheEntries = <<>>
  /\ cacheNow = 0
  /\ cacheLast = NoCacheOp

(***************************************************************************)
(* The callback of fetchSPLTransactions for one signature of one token     *)
(* account (lines 638-765).  Token amounts are decimal numbers with seven  *)
(* places, Tok(whole, frac) = whole + frac / 10^7; on the amounts used     *)
(* here every comparison of the code gives the same result on doubles.     *)
(***************************************************************************)
Tok(whole, frac) == [whole |-> whole, frac |-> frac]
TokNorm(whole, frac) ==
  IF frac >= 10000000 THEN Tok(whole + 1, frac - 10000000)
  ELSE IF frac < 0 THEN Tok(whole - 1, frac + 10000000)
  ELSE Tok(whole, frac)
TokAdd(a, b) == TokNorm(a.whole + b.whole, a.frac + b.frac)
TokSub(a, b) == TokNorm(a.whole - b.whole, a.frac - b.frac)
TokLt(a, b) == a.whole < b.whole \/ (a.whole = b.whole /\ a.frac < b.frac)
TokLeq(a, b) == ~TokLt(b, a)
TokZero == Tok(0, 0)
TokAbs(a) == IF TokLt(a, TokZero) THEN TokSub(TokZero, a) ELSE a
TokSign(a) == IF TokLt(a, TokZero) THEN -1 ELSE IF a = TokZero THEN 0 ELSE 1

\* VALIDATION_LIMITS (lines 34-37): 1000000000 and 0.000001.
MaxTokenAmount == Tok(MAX_TOKEN_AMOUNT, 0)
TokenDustThreshold == Tok(0, 10)

TokenSignature == "s1"
TokenMint == "m1"
TokenKey == <<TokenSignature, TokenMint>>

\* parseFloat(info.tokenAmount?.uiAmountString || '0'): NaN or a number.
NaNAmount == [nan |-> TRUE, value |-> TokZero]
Parsed(value) == [nan |-> FALSE, value |-> value]

\* An instruction of tx.transaction.message.instructions: not a parsed
\* 'transfer', or a parsed 'transfer' with info.mint, the parsed amount and
\* how info.destination / info.source relate to the token account: "in"
\* (destination is the account), "out" (source is), "foreign" (neither).
OtherInstruction == [type |-> "other", mint |-> "none", amount |-> Parsed(TokZero),
                     party |-> "foreign"]
TransferInstruction(mint, amount, party) ==
  [type |-> "transfer", mint |-> mint, amount |-> amount, party |-> party]

\* An element of tx.meta.preTokenBalances / postTokenBalances with this mint
\* and owner, if find() returns one; uiAmount || 0.
NoBalance == [found |-> FALSE, amount |-> TokZero]
Balance(amount) == [found |-> TRUE, amount |-> amount]

\* What getParsedTransaction resolves with.
NullTokenTx ==
  [kind |-> "null", instructions |-> <<>>, hasBalances |-> FALSE,
   pre |-> NoBalance, post |-> NoBalance]
NoMetaTokenTx == [NullTokenTx EXCEPT !.kind = "noMeta"]
ParsedTokenTx(instructions, hasBalances, pre, post) ==
  [kind |-> "parsed", instructions |-> instructions, hasBalances |-> hasBalances,
   pre |-> pre, post |-> post]

\* Line 677, negated: !(isNaN(amount) || amount < 0 || amount > MAX_TOKEN_AMOUNT)
ValidAmount(amount) ==
  /\ ~amount.nan
  /\ ~TokLt(amount.value, TokZero)
  /\ ~TokLt(MaxTokenAmount, amount.value)

\* Lines 669-691: the loop over the instructions; acc is
\* [found |-> tokenTransferFound, change |-> amountChange].
RECURSIVE ParseInstructions(_, _, _)
ParseInstructions(acc, instructions, i) ==
  IF i > Len(instructions) THEN acc
  ELSE LET ins == instructions[i]
       IN  ParseInstructions(
             IF ins.type = "transfer" /\ ins.mint = TokenMint /\ ValidAmount(ins.amount)
             THEN [found |-> TRUE,
                   change |-> IF ins.party = "in"
                              THEN TokAdd(acc.change, ins.amount.value)
                              ELSE IF ins.party = "out"
                                   THEN TokSub(acc.change, ins.amount.value)
                                   ELSE acc.change]
             ELSE acc,
             instructions, i + 1)

\* Line 692: !tokenTransferFound && tx.meta.postTokenBalances && tx.meta.preTokenBalances
UseBalances(acc, tx) == ~acc.found /\ tx.hasBalances

\* Lines 700-726: "unreasonable" stands for the early return of lines 705-710.
FromBalances(acc, pre, post) ==
  IF post.found /\ pre.found
  THEN IF TokLt(MaxTokenAmount, post.amount) \/ TokLt(MaxTokenAmount, pre.amount)
       THEN [found |-> acc.found, change |-> acc.change, unreasonable |-> TRUE]
       ELSE [found |-> TRUE, change |-> TokSub(post.amount, pre.amount),
             unreasonable |-> FALSE]
  ELSE IF post.found /\ TokLeq(post.amount, MaxTokenAmount)
  THEN [found |-> TRUE, change |-> post.amount, unreasonable |-> FALSE]
  ELSE IF pre.found /\ ~post.found /\ TokLeq(pre.amount, MaxTokenAmount)
  THEN [found |-> TRUE, change |-> TokSub(TokZero, pre.amount), unreasonable |-> FALSE]
  ELSE [found |-> acc.found, change |-> acc.change, unreasonable |-> FALSE]

\* Mutant of Plausible: the upper limit is not tested.
Plausible_NoMax(found, absoluteAmount) ==
  /\ found
  /\ TokLt(TokZero, absoluteAmount)
  /\ TokLeq(TokenDustThreshold, absoluteAmount)

\* Lines 731-734.
Plausible(found, absoluteAmount) ==
  /\ found
  /\ TokLt(TokZero, absoluteAmount)
  /\ TokLeq(TokenDustThreshold, absoluteAmount)
  /\ TokLeq(absoluteAmount, MaxTokenAmount)

\* What the callback did with a transaction it got: whether it called
\* cacheTransaction, what it returned (<<>> is null), and how it got there.
TokenOutcome(cached, result, found, change, usedBalances) ==
  [cached |-> cached, result |-> result, found |-> found, change |-> change,
   usedBalances |-> usedBalances]

\* Mutant of Filtered: a filtered transaction is not cached.
Filtered_NotCached(found, change, usedBalances) ==
  TokenOutcome(FALSE, <<>>, found, change, usedBalances)

\* Lines 752-756: cacheTransaction(cacheKey, Date.now()); return null.
Filtered(found, change, usedBalances) ==
  TokenOutcome(TRUE, <<>>, found, change, usedBalances)

\* Lines 657-756, after getParsedTransaction resolved with tx.
ProcessTokenTransaction(tx) ==
  IF tx.kind \in {"null", "noMeta"}
  THEN TokenOutcome(TRUE, <<>>, FALSE, TokZero, FALSE)
  ELSE LET parsed == ParseInstructions([found |-> FALSE, change |-> TokZero],
                                       tx.instructions, 1)
           usedBalances == UseBalances(parsed, tx)
           final == IF usedBalances
                    THEN FromBalances(parsed, tx.pre, tx.post)
                    ELSE [found |-> parsed.found, change |-> parsed.change,
                          unreasonable |-> FALSE]
           absoluteAmount == TokAbs(final.change)
       IN  IF final.unreasonable
           THEN TokenOutcome(TRUE, <<>>, final.found, final.change, usedBalances)
           ELSE IF Plausible(final.found, absoluteAmount)
           THEN TokenOutcome(TRUE,
                             <<Candidate(TokenSignature, TokenMint, absoluteAmount,
                                         TokSign(final.change),
                                         BlockTime(TokenSignature))>>,
                             final.found, final.change, usedBalances)
           ELSE Filtered(final.found, final.change, usedBalances)

\* The transactions the node may answer with.
InstructionAmounts ==
  {NaNAmount} \cup
  {Parsed(v) : v \in {Tok(-5, 0), Tok(0, 9), TokenDustThreshold, Tok(5, 0),
                      MaxTokenAmount, Tok(MAX_TOKEN_AMOUNT + 1, 0)}}
Instructions ==
  {OtherInstruction, TransferInstruction("m2", Parsed(Tok(5, 0)), "in")}
  \cup {TransferInstruction(TokenMint, a, p) :
          a \in InstructionAmounts, p \in {"in", "out", "foreign"}}
BalanceEntries ==
  {NoBalance} \cup
  {Balance(v) : v \in {TokZero, Tok(0, 9), TokenDustThreshold, Tok(5, 0),
                       MaxTokenAmount, Tok(MAX_TOKEN_AMOUNT + 1, 0)}}
\* No instruction, any one instruction, or any instruction after a transfer
\* of the largest amount in, of the smallest out, or one with a bad amount.
FirstInstructions ==
  {TransferInstruction(TokenMint, Parsed(MaxTokenAmount), "in"),
   TransferInstruction(TokenMint, Parsed(TokenDustThreshold), "out"),
   TransferInstruction(TokenMint, NaNAmount, "in")}
InstructionLists ==
  SeqsUpTo(Instructions, 1)
  \cup {<<a, b>> : a \in FirstInstructions, b \in Instructions}
TokenTransactions ==
  {NullTokenTx, NoMetaTokenTx}
  \cup {ParsedTokenTx(ins, FALSE, NoBalance, NoBalance) : ins \in InstructionLists}
  \cup {ParsedTokenTx(ins, TRUE, pre, post) :
          ins \in InstructionLists, pre \in BalanceEntries, post \in BalanceEntries}

TokenUnsent ==
  [state |-> "unsent", timer |-> NoTimer, tx |-> NullTokenTx,
   outcome |-> TokenOutcome(FALSE, <<>>, FALSE, TokZero, FALSE)]

\* batch.map(async (sig) => ...), lines 638-654: a cached key returns null,
\* else the timer is set and getParsedTransaction is called.
StartTokenBatch ==
  /\ tkPhase \in {"idle", "done"}
  /\ tkRuns < MaxBatchRuns
  /\ tkRuns' = tkRuns + 1
  /\ tkPhase' = "awaiting"
  /\ tkOut' = <<>>
  /\ tkReq' = IF isTransactionCached(transactionCache, TokenKey)
              THEN [TokenUnsent EXCEPT !.state = "skipped"]
              ELSE [TokenUnsent EXCEPT !.state = "pending", !.timer = ArmedTimer]
  /\ UNCHANGED <<transactionCache, hookRest, fetcher>>
  /\ UNCHANGED <<fxVars, txVars, bkVars, inVars, waiter, ceVars, mbReq, mbIndex,
                 mbPhase, rcVars, queueVars, queueHistory>>

\* getParsedTransaction resolves with tx: lines 656-756.
TokenRpcAnswers(tx) ==
  /\ tkReq.state = "pending"
  /\ LET outcome == ProcessTokenTransaction(tx)
     IN  /\ tkReq' = [tkReq EXCEPT !.state = "answered",
                                   !.timer = clearTimeout(@),
                                   !.tx = tx,
                                   !.outcome = outcome]
         /\ transactionCache' = IF outcome.cached
                                THEN cacheTransaction(transactionCache, TokenKey)
                                ELSE transactionCache
  /\ UNCHANGED <<tkPhase, tkOut, tkRuns, hookRest, fetcher>>
  /\ UNCHANGED <<fxVars, txVars, bkVars, inVars, waiter, ceVars, mbReq, mbIndex,
                 mbPhase, rcVars, queueVars, queueHistory>>

\* getParsedTransaction rejects: the catch of lines 757-764 returns null.
TokenRpcThrows ==
  /\ tkReq.state = "pending"
  /\ tkReq' = [tkReq EXCEPT !.state = "threw"]
  /\ transactionCache' = OnRpcError(transactionCache, TokenKey)
  /\ UNCHANGED <<tkPhase, tkOut, tkRuns, hookRest, fetcher>>
  /\ UNCHANGED <<fxVars, txVars, bkVars, inVars, waiter, ceVars, mbReq, mbIndex,
                 mbPhase, rcVars, queueVars, queueHistory>>

\* await Promise.all(batchPromises) resumes: lines 767-769.
TokenBatchSettles ==
  /\ tkPhase = "awaiting"
  /\ tkReq.state \in {"skipped", "answered", "threw"}
  /\ tkPhase' = "done"
  /\ tkOut' = tkReq.outcome.result
  /\ UNCHANGED <<tkReq, tkRuns, transactionCache, hookRest, fetcher>>
  /\ UNCHANGED <<fxVars, txVars, bkVars, inVars, waiter, ceVars, mbReq, mbIndex,
                 mbPhase, rcVars, queueVars, queueHistory>>

\* No token batch has been started.
TokenIdle ==
  /\ tkReq = TokenUnsent
  /\ tkPhase = "idle"
  /\ tkOut = <<>>
  /\ tkRuns = 0

(***************************************************************************)
(* The batch loop of a fetcher (lines 476-562 and 631-776) over the        *)
(* signatures the node listed, none of them cached.  A request is          *)
(* "unsent", "pending" or "settled"; how it settles is the subject of the  *)
(* batch models above.                                                     *)
(***************************************************************************)
\* The bound of the loop: signatures.length (line 478), or
\* Math.min(signatures.length, SPL_SIGNATURES_PER_ACCOUNT_MAX) (line 632).
LoopLimit(kind, n) ==
  IF kind = "token" THEN Min(n, SPL_SIGNATURES_PER_ACCOUNT_MAX) ELSE n

\* signatures.slice(i, i + batchSize), as indices 1..n.
BatchOf(i, n) == (i + 1)..Min(i + TRANSACTION_BATCH_SIZE, n)

\* batch.map(async ...) runs every callback up to its request.
SendBatch(reqs, i) ==
  [k \in DOMAIN reqs |-> IF k \in BatchOf(i, Len(reqs)) THEN "pending" ELSE reqs[k]]

\* Mutant of BatchDone: the first settled request is enough.
BatchDone_Any(reqs, i) ==
  \E k \in BatchOf(i, Len(reqs)) : reqs[k] = "settled"

\* Promise.all(batchPromises) resolves (lines 554, 767); no callback rejects.
BatchDone(reqs, i) ==
  \A k \in BatchOf(i, Len(reqs)) : reqs[k] = "settled"

\* The loop is entered: its first batch is sent, or there is none.
StartLoop ==
  /\ mbPhase = "idle"
  /\ IF 0 < LoopLimit(fetcher, Len(mbReq))
     THEN /\ mbReq' = SendBatch(mbReq, 0)
          /\ mbPhase' = "awaiting"
     ELSE /\ mbPhase' = "done"
          /\ UNCHANGED mbReq
  /\ UNCHANGED <<fetcher, mbIndex>>
  /\ UNCHANGED <<fxVars, txVars, bkVars, inVars, waiter, ceVars, tkVars, rcVars,
                 queueVars, queueHistory, hookVars>>

\* The request of signature k resolves or rejects; its callback returns.
RequestSettles(k) ==
  /\ mbReq[k] = "pending"
  /\ mbReq' = [mbReq EXCEPT ![k] = "settled"]
  /\ UNCHANGED <<fetcher, mbIndex, mbPhase>>
  /\ UNCHANGED <<fxVars, txVars, bkVars, inVars, waiter, ceVars, tkVars, rcVars,
                 queueVars, queueHistory, hookVars>>

\* await Promise.all resumes (lines 554-562, 767-775): the results are
\* pushed; with more signatures to go the loop waits
\* TRANSACTION_BATCH_DELAY_MS, else it ends.
BatchResumes ==
  /\ mbPhase = "awaiting"
  /\ BatchDone(mbReq, mbIndex)
  /\ mbPhase' = IF mbIndex + TRANSACTION_BATCH_SIZE < LoopLimit(fetcher, Len(mbReq))
                THEN "delay" ELSE "done"
  /\ UNCHANGED <<fetcher, mbReq, mbIndex>>
  /\ UNCHANGED <<fxVars, txVars, bkVars, inVars, waiter, ceVars, tkVars, rcVars,
                 queueVars, queueHistory, hookVars>>

\* The delay is over: i += batchSize, and the next batch is sent.
DelayElapsed ==
  /\ mbPhase = "delay"
  /\ mbIndex' = mbIndex + TRANSACTION_BATCH_SIZE
  /\ mbReq' = SendBatch(mbReq, mbIndex + TRANSACTION_BATCH_SIZE)
  /\ mbPhase' = "awaiting"
  /\ UNCHANGED fetcher
  /\ UNCHANGED <<fxVars, txVars, bkVars, inVars, waiter, ceVars, tkVars, rcVars,
                 queueVars, queueHistory, hookVars>>

\* No fetcher is running.
BatchesIdle ==
  /\ fetcher = "native"
  /\ mbReq = <<>>
  /\ mbIndex = 0
  /\ mbPhase = "idle"

(***************************************************************************)
(* Initial values of the module-level state (lines 125-126).               *)
(***************************************************************************)
QueueInit ==
  /\ walletQueue = <<>>
  /\ isQueueProcessing = FALSE
  /\ running = {}
  /\ retryTimers = {}
  /\ processTimers = 0
  /\ nextEid = 1
  /\ history = NoHistory

RcIdle ==
  /\ rcCandidates = <<>>
  /\ rcPersisted = <<>>
  /\ rcOutput = <<>>
  /\ rcPhase = "off"

\* A first visit: nothing stored, no wallet configured, every hook mounted.
HookInit ==
  /\ storage = NoItem
  /\ transactions = [h \in Hooks |-> <<>>]
  /\ loading = [h \in Hooks |-> FALSE]
  /\ pc = [h \in Hooks |-> "idle"]
  /\ allTransactions = [h \in Hooks |-> <<>>]
  /\ lastResult = [h \in Hooks |-> "none"]
  /\ transactionCache = {}
  /\ activeWallets = {}
  /\ refreshes = 0

\* currency.ts lines 29-33; no getExchangeRates call has been made.
RatesIdle ==
  /\ exchangeRateCache = EmptyCache
  /\ now = 1
  /\ fxPc = "idle"
  /\ fxRetryCount = 0
  /\ fxNow = 0
  /\ fxSettled = Pending
  /\ fxLast = NoResponse
  /\ fxRequests = 0
  /\ fxDelay = 0
  /\ fxCalls = 0
  /\ fxTicks = 0

\* initializeExchangeRates has not been called.
StartupIdle ==
  /\ inPc = "idle"
  /\ inRetryCount = 0
  /\ inNow = 0
  /\ inRequests = 0

\* Nothing waits for the queue.
NoWaiter == waiter = "none"

\* No batch has been started.
BatchIdle ==
  /\ txReq = [sig \in {BatchSignatures[i] : i \in DOMAIN BatchSignatures} |-> Unsent]
  /\ txPhase = "idle"
  /\ txOut = <<>>
  /\ txRuns = 0

(***************************************************************************)
(* The application: refreshes, classifications, wallet toggles, reloads.   *)
(***************************************************************************)
Init == QueueInit /\ RcIdle /\ HookInit /\ RatesIdle /\ BatchIdle /\ BackoffIdle /\ StartupIdle /\ NoWaiter /\ CacheIdle /\ TokenIdle /\ BatchesIdle

Next ==
  \/ \E h \in Hooks : fetchAllTransactions(h)
  \/ \E h \in Hooks : RatesSettled(h)
  \/ \E r \in running : FetchSOLDone(r)
  \/ \E r \in running : FetchSPLDone(r)
  \/ ProcessTimerFires
  \/ \E h \in Hooks : QueueIdlePoll(h)
  \/ \E id \in Keys, c \in Classifications : classifyTransaction("app", id, c[1], c[2])
  \/ \E w \in {W1, W2} : ToggleWallet(w)
  \/ Reload

Spec == Init /\ [][Next]_vars

(***************************************************************************)
(* The refreshes alone, for termination: every awaited call settles (by    *)
(* returning or by throwing) and every timer and interval fires.           *)
(***************************************************************************)
LiveNext ==
  \/ \E h \in Hooks : fetchAllTransactions(h)
  \/ \E h \in Hooks : RatesSettled(h)
  \/ \E r \in running : FetchSOLDone(r)
  \/ \E r \in running : FetchSPLDone(r)
  \/ ProcessTimerFires
  \/ \E h \in Hooks : QueueIdlePoll(h)
  \/ \E w \in {W1, W2} : ToggleWallet(w)

SpecLive ==
  /\ Init
  /\ [][LiveNext]_vars
  /\ \A h \in Hooks : WF_vars(RatesSettled(h))
  /\ WF_vars(\E r \in running : FetchSOLDone(r))
  /\ WF_vars(\E r \in running : FetchSPLDone(r))
  /\ WF_vars(ProcessTimerFires)
  /\ \A h \in Hooks : WF_vars(QueueIdlePoll(h))

(***************************************************************************)
(* Refreshes over stored configs one of which has an invalid address.      *)
(***************************************************************************)
\* The page was loaded with stored configs that are active, the invalid one
\* among them (loadWalletConfigs reads what localStorage holds).
AddressInit ==
  /\ QueueInit /\ RcIdle /\ RatesIdle /\ BatchIdle /\ BackoffIdle /\ StartupIdle /\ NoWaiter /\ CacheIdle /\ TokenIdle /\ BatchesIdle
  /\ storage = NoItem
  /\ transactions = [h \in Hooks |-> <<>>]
  /\ loading = [h \in Hooks |-> FALSE]
  /\ pc = [h \in Hooks |-> "idle"]
  /\ allTransactions = [h \in Hooks |-> <<>>]
  /\ lastResult = [h \in Hooks |-> "none"]
  /\ transactionCache = {}
  /\ activeWallets \in {a \in SUBSET {W1, W2, W3} : W3 \in a}
  /\ refreshes = 0

\* Refreshes of AppContent's instance.
AddressNext ==
  \/ fetchAllTransactions("app")
  \/ RatesSettled("app")
  \/ \E r \in running : FetchSOLDone(r)
  \/ \E r \in running : FetchSPLDone(r)
  \/ \E r \in running : PublicKeyThrows(r)
  \/ ProcessTimerFires
  \/ QueueIdlePoll("app")

SpecAddressesLive ==
  /\ AddressInit
  /\ [][AddressNext]_vars
  /\ WF_vars(RatesSettled("app"))
  /\ WF_vars(\E r \in running : FetchSOLDone(r))
  /\ WF_vars(\E r \in running : FetchSPLDone(r))
  /\ WF_vars(\E r \in running : PublicKeyThrows(r))
  /\ WF_vars(ProcessTimerFires)
  /\ WF_vars(QueueIdlePoll("app"))

(***************************************************************************)
(* The queue on its own, driven by addToWalletQueue calls with plain tasks *)
(* that may resolve or reject.                                             *)
(***************************************************************************)
QueueWallets ==
  {Wallet("a1", "Main"), Wallet("a2", "Savings"), Wallet("a3", "Main")}

Enqueue(w) ==
  /\ nextEid <= MaxEnqueues
  /\ SetQueueState(addToWalletQueue(QueueState, w, "task", nextEid))
  /\ nextEid' = nextEid + 1
  /\ UNCHANGED <<retryTimers, processTimers>>
  /\ UNCHANGED <<fxVars, txVars, bkVars, ceVars, tkVars, mbVars, inVars, waiter, rcVars, hookVars>>

QueueSpecInit == QueueInit /\ RcIdle /\ HookInit /\ RatesIdle /\ BatchIdle /\ BackoffIdle /\ StartupIdle /\ NoWaiter /\ CacheIdle /\ TokenIdle /\ BatchesIdle

QueueNext ==
  \/ \E w \in QueueWallets : Enqueue(w)
  \/ \E r \in running : TaskSucceeds(r)
  \/ \E r \in running : TaskFails(r)
  \/ \E t \in retryTimers : RetryTimerFires(t)
  \/ ProcessTimerFires

SpecQueue == QueueSpecInit /\ [][QueueNext]_vars

\* The same with timers that fire (lines 159-166, 176-179) and tasks whose
\* promise settles one way or the other.
SpecQueueLive ==
  /\ QueueSpecInit
  /\ [][QueueNext]_vars
  /\ WF_vars(ProcessTimerFires)
  /\ WF_vars(\E t \in retryTimers : RetryTimerFires(t))
  /\ WF_vars(\E r \in running : TaskSucceeds(r) \/ TaskFails(r))

(***************************************************************************)
(* The queue with a caller that, like fetchAllTransactions, hands it all   *)
(* its tasks and then waits for it (lines 375-383).                        *)
(***************************************************************************)
\* Line 376: the caller's loop over its wallets is over and it awaits the
\* promise that the interval will resolve.
WaitForQueue ==
  /\ waiter = "none"
  /\ nextEid > MaxEnqueues
  /\ waiter' = "waiting"
  /\ UNCHANGED <<fxVars, txVars, bkVars, ceVars, tkVars, mbVars, inVars, rcVars, queueVars, queueHistory, hookVars>>

\* Lines 377-382: a tick of the interval finds the condition of line 378
\* true, clears the interval and resolves.  Other ticks change nothing.
PollQueue ==
  /\ waiter = "waiting"
  /\ QueueFinished(walletQueue, isQueueProcessing)
  /\ waiter' = "resolved"
  /\ UNCHANGED <<fxVars, txVars, bkVars, ceVars, tkVars, mbVars, inVars, rcVars, queueVars, queueHistory, hookVars>>

QueuePollNext ==
  \/ QueueNext
  \/ WaitForQueue
  \/ PollQueue

SpecQueuePoll == QueueSpecInit /\ [][QueuePollNext]_vars

(***************************************************************************)
(* One run of a fetcher's batch loop over 0 to MaxSignatures signatures.   *)
(***************************************************************************)
BatchesInit ==
  /\ QueueInit /\ RcIdle /\ HookInit /\ RatesIdle /\ BatchIdle /\ BackoffIdle
  /\ StartupIdle /\ NoWaiter /\ CacheIdle /\ TokenIdle
  /\ fetcher \in {"native", "token"}
  /\ \E n \in 0..MaxSignatures : mbReq = [k \in 1..n |-> "unsent"]
  /\ mbIndex = 0
  /\ mbPhase = "idle"

BatchesNext ==
  \/ StartLoop
  \/ \E k \in DOMAIN mbReq : RequestSettles(k)
  \/ BatchResumes
  \/ DelayElapsed

SpecBatches == BatchesInit /\ [][BatchesNext]_vars

(***************************************************************************)
(* The signature cache on its own: has and record calls on five keys while *)
(* the clock advances, from the empty Map.                                 *)
(***************************************************************************)
CacheNext ==
  \/ \E key \in CacheKeys : CacheHas(key)
  \/ \E key \in CacheKeys : CacheRecord(key)
  \/ CacheTick

SpecCache == Init /\ [][CacheNext]_vars

(***************************************************************************)
(* The price oracle client on its own: calls of getExchangeRates, one at a *)
(* time, against an oracle that answers in any of the ways of Responses,   *)
(* while time passes in steps of 1 ms and of one TTL less 1 ms.            *)
(***************************************************************************)
RatesInit == QueueInit /\ RcIdle /\ HookInit /\ RatesIdle /\ BatchIdle /\ BackoffIdle /\ StartupIdle /\ NoWaiter /\ CacheIdle /\ TokenIdle /\ BatchesIdle

RatesNext ==
  \/ getExchangeRates
  \/ \E resp \in Responses : OracleSettles(resp)
  \/ BackoffElapsed
  \/ \E d \in {1, EXCHANGE_RATE_CACHE_TTL_MS - 1} : Tick(d)

SpecRates == RatesInit /\ [][RatesNext]_vars

\* The same with an oracle request that settles (fetch resolves or rejects,
\* at the latest when its 10 s timer aborts it) and backoff timers that fire.
SpecRatesLive ==
  /\ RatesInit
  /\ [][RatesNext]_vars
  /\ WF_vars(\E resp \in Responses : OracleSettles(resp))
  /\ WF_vars(BackoffElapsed)

(***************************************************************************)
(* Start-up initialisation next to the calls a refresh makes: both go      *)
(* through getExchangeRates, in any interleaving of their awaits, against  *)
(* an oracle that answers with quotes, a 429, a network error or nothing   *)
(* before the timeout.                                                     *)
(***************************************************************************)
OverlapResponses ==
  {[kind |-> "ok", data |-> AllQuotes]}
  \cup {[kind |-> k, data |-> NoBody] : k \in {"http429", "networkError", "timeout"}}

OverlapNext ==
  \/ getExchangeRates
  \/ \E resp \in OverlapResponses : OracleSettles(resp)
  \/ BackoffElapsed
  \/ initializeExchangeRates
  \/ \E resp \in OverlapResponses : InitSettles(resp)
  \/ InitBackoffElapsed
  \/ \E d \in {1, EXCHANGE_RATE_CACHE_TTL_MS - 1} : Tick(d)

SpecOverlap == RatesInit /\ [][OverlapNext]_vars

(***************************************************************************)
(* The native fetcher's batch on its own, run twice against an RPC node    *)
(* that answers, throws or stays silent.  In SpecFetchLive timers fire and *)
(* a settled batch goes on; the node is not obliged to do anything.        *)
(***************************************************************************)
FetchInit == QueueInit /\ RcIdle /\ HookInit /\ RatesIdle /\ BatchIdle /\ BackoffIdle /\ StartupIdle /\ NoWaiter /\ CacheIdle /\ TokenIdle /\ BatchesIdle

FetchNext ==
  \/ StartBatch
  \/ \E sig \in DOMAIN txReq : \E tx \in RpcTransactions : RpcAnswers(sig, tx)
  \/ \E sig \in DOMAIN txReq : RpcThrows(sig)
  \/ \E sig \in DOMAIN txReq : TimeoutFires(sig)
  \/ BatchSettles

SpecFetch == FetchInit /\ [][FetchNext]_vars

SpecFetchLive ==
  /\ FetchInit
  /\ [][FetchNext]_vars
  /\ \A sig \in {BatchSignatures[i] : i \in DOMAIN BatchSignatures} :
       WF_vars(TimeoutFires(sig))
  /\ WF_vars(BatchSettles)

(***************************************************************************)
(* A batch of either fetcher, run twice: the native fetcher's batch of     *)
(* SpecFetch, or the token fetcher's callback for one signature (whose     *)
(* timer is the one TimeoutFires models for the native fetcher).           *)
(***************************************************************************)
FetchersInit ==
  /\ QueueInit /\ RcIdle /\ HookInit /\ RatesIdle /\ BatchIdle /\ BackoffIdle
  /\ StartupIdle /\ NoWaiter /\ CacheIdle /\ TokenIdle
  /\ fetcher \in {"native", "token"}
  /\ mbReq = <<>>
  /\ mbIndex = 0
  /\ mbPhase = "idle"

TokenNext ==
  \/ StartTokenBatch
  \/ \E tx \in TokenTransactions : TokenRpcAnswers(tx)
  \/ TokenRpcThrows
  \/ TokenBatchSettles

FetchersNext ==
  \/ fetcher = "native" /\ FetchNext
  \/ fetcher = "token" /\ TokenNext

SpecFetchers == FetchersInit /\ [][FetchersNext]_vars

(***************************************************************************)
(* calculateBackoffDelay on its own.                                       *)
(***************************************************************************)
BackoffInit ==
  /\ QueueInit /\ RcIdle /\ HookInit /\ RatesIdle /\ BatchIdle
  /\ StartupIdle /\ NoWaiter /\ CacheIdle /\ TokenIdle /\ BatchesIdle
  /\ bkCall \in BackoffCalls
  /\ bkDelay = <<>>

SpecBackoff == BackoffInit /\ [][CallBackoff]_vars

(***************************************************************************)
(* Reconciler harness: the inputs are drawn from bounded sets.  Candidates *)
(* are what the fetchers return; the stored list is whatever was last      *)
(* written by saveTransactions, which importData (storage.ts 202-214)      *)
(* calls with an unvalidated list, so neither list is assumed unique or    *)
(* sorted.                                                                 *)
(***************************************************************************)
CandidateRecords ==
  {Candidate(k[1], k[2], 1, 1, 1) : k \in Keys} \cup
  {Candidate(k[1], k[2], 2, -2, 2) : k \in Keys}

PersistedRecords ==
  {Candidate(k[1], k[2], 1, 1, 1) : k \in Keys} \cup
  {Classified(Candidate(k[1], k[2], 1, 1, 1), "Salary", "memo") : k \in Keys} \cup
  {Classified(Candidate(k[1], k[2], 2, -2, 2), "Rent", NoNotes) : k \in Keys}

RcInit ==
  /\ QueueInit
  /\ HookInit
  /\ RatesIdle
  /\ BatchIdle
  /\ BackoffIdle
  /\ StartupIdle
  /\ NoWaiter /\ CacheIdle /\ TokenIdle /\ BatchesIdle
  /\ rcCandidates \in SeqsUpTo(CandidateRecords, MaxCandidates)
  /\ rcPersisted \in SeqsUpTo(PersistedRecords, MaxPersisted)
  /\ rcOutput = <<>>
  /\ rcPhase = "input"

RunReconciler ==
  /\ rcPhase = "input"
  /\ rcOutput' = Reconcile(rcCandidates, rcPersisted)
  /\ rcPhase' = "done"
  /\ UNCHANGED <<rcCandidates, rcPersisted>>
  /\ UNCHANGED <<fxVars, txVars, bkVars, ceVars, tkVars, mbVars, inVars, waiter, queueVars, queueHistory, hookVars>>

SpecReconcile == RcInit /\ [][RunReconciler]_vars

(***************************************************************************)
(* Reconciler claims (checked under SpecReconcile).                        *)
(***************************************************************************)
HasKey(list, tx) == FindIndex(list, tx) # 0
FirstOfKey(list, i) == FindIndex(list, list[i]) = i
KeysOf(list) == {<<list[i].signature, list[i].mint>> : i \in 1..Len(list)}
OutputFor(tx) == rcOutput[FindIndex(rcOutput, tx)]
DuplicateKeys(list) ==
  \E a, b \in 1..Len(list) : a < b /\ SameKey(list[a], list[b])

\* The output record with c's key has p's user fields and c's fetched fields.
MergedFrom(c, p) ==
  /\ HasKey(rcOutput, c)
  /\ OutputFor(c).category = p.category
  /\ OutputFor(c).notes = p.notes
  /\ OutputFor(c).classified = p.classified
  /\ OutputFor(c).amount = c.amount
  /\ OutputFor(c).type = c.type
  /\ OutputFor(c).timestamp = c.timestamp
  /\ OutputFor(c).description = c.description
  /\ OutputFor(c).id = c.id

\* C1 (as stated): for every candidate whose (signature, mint) key matches a
\* persisted record, the output record for that key carries that persisted
\* record's category, notes and classified flag and every other field of
\* that candidate.
C1_AsStated ==
  rcPhase = "done" =>
    \A i \in 1..Len(rcCandidates) : \A j \in 1..Len(rcPersisted) :
      SameKey(rcCandidates[i], rcPersisted[j]) =>
        MergedFrom(rcCandidates[i], rcPersisted[j])

\* C1 (amended): for every key that occurs among the candidates and among the
\* persisted records, the output record for that key carries the category,
\* notes and classified flag of the first persisted record with that key and
\* every other field of the first candidate with that key.
C1_ClassificationKept ==
  rcPhase = "done" =>
    \A i \in 1..Len(rcCandidates) :
      (FirstOfKey(rcCandidates, i) /\ HasKey(rcPersisted, rcCandidates[i])) =>
        MergedFrom(rcCandidates[i],
                   rcPersisted[FindIndex(rcPersisted, rcCandidates[i])])

\* A classified stored record was fetched again with different raw fields.
C1_Witness ==
  /\ rcPhase = "done"
  /\ \E i \in 1..Len(rcCandidates) : \E j \in 1..Len(rcPersisted) :
       /\ SameKey(rcCandidates[i], rcPersisted[j])
       /\ rcPersisted[j].classified
       /\ rcPersisted[j].amount # rcCandidates[i].amount
       /\ OutputFor(rcCandidates[i]).classified
       /\ OutputFor(rcCandidates[i]).amount = rcCandidates[i].amount

\* C3: the Reconciler's output never holds two records with the same
\* (signature, mint) pair, whatever the candidate list and the persisted
\* list are, duplicates in either included.
C3_UniqueKeys == rcPhase = "done" => ~DuplicateKeys(rcOutput)

\* Both inputs held duplicate keys and a record came out.
C3_Witness ==
  /\ rcPhase = "done"
  /\ DuplicateKeys(rcCandidates)
  /\ DuplicateKeys(rcPersisted)
  /\ \E i \in 1..Len(rcCandidates) : HasKey(rcPersisted, rcCandidates[i])
  /\ Len(rcOutput) >= 1

\* C4 (as stated): every persisted record whose key matches no candidate is
\* in the output unchanged, and the output's keys are the candidates' keys
\* together with the persisted keys.
C4_AsStated ==
  rcPhase = "done" =>
    /\ \A j \in 1..Len(rcPersisted) :
         ~HasKey(rcCandidates, rcPersisted[j]) =>
           \E a \in 1..Len(rcOutput) : rcOutput[a] = rcPersisted[j]
    /\ KeysOf(rcOutput) = KeysOf(rcCandidates) \cup KeysOf(rcPersisted)

\* C4 (amended): every persisted record whose key matches no candidate and
\* no earlier persisted record is in the output unchanged in every field;
\* the output's keys are the candidates' keys together with the persisted
\* keys.
C4_UnmatchedRetained ==
  rcPhase = "done" =>
    /\ \A j \in 1..Len(rcPersisted) :
         (FirstOfKey(rcPersisted, j) /\ ~HasKey(rcCandidates, rcPersisted[j])) =>
           \E a \in 1..Len(rcOutput) : rcOutput[a] = rcPersisted[j]
    /\ KeysOf(rcOutput) = KeysOf(rcCandidates) \cup KeysOf(rcPersisted)

\* A classified stored record had no candidate in a fetch that returned others.
C4_Witness ==
  /\ rcPhase = "done"
  /\ Len(rcCandidates) >= 1
  /\ \E j \in 1..Len(rcPersisted) :
       /\ ~HasKey(rcCandidates, rcPersisted[j])
       /\ rcPersisted[j].classified
       /\ \E a \in 1..Len(rcOutput) : rcOutput[a] = rcPersisted[j]

(***************************************************************************)
(* Wallet queue claims (checked under SpecQueue).                          *)
(***************************************************************************)
QueueItems == {walletQueue[i] : i \in 1..Len(walletQueue)}

\* The number of places (queue slots, running tasks, pending retry timers)
\* that hold an entry of addToWalletQueue call e.
LiveCount(e) ==
  Cardinality({i \in 1..Len(walletQueue) : walletQueue[i].eid = e})
  + Cardinality({r \in running : r.item.eid = e})
  + Cardinality({t \in retryTimers : t.item.eid = e})

LiveItems(e) ==
  {it \in QueueItems : it.eid = e}
  \cup {r.item : r \in {x \in running : x.item.eid = e}}
  \cup {t.item : t \in {x \in retryTimers : x.item.eid = e}}

QueueDrained ==
  /\ walletQueue = <<>>
  /\ running = {}
  /\ retryTimers = {}
  /\ processTimers = 0
  /\ ~isQueueProcessing

\* C5: at most one task is executing at any time, and a task is executing
\* only while isQueueProcessing is set, so the next entry's task never
\* starts before the current one has settled.
C5_OneTaskAtATime ==
  /\ Cardinality(running) <= 1
  /\ running # {} => isQueueProcessing
  /\ processTimers <= 1
  /\ processTimers = 1 => (running = {} /\ isQueueProcessing)

\* A task runs while a retried entry waits in the queue behind it.
C5_Witness ==
  /\ Cardinality(running) = 1
  /\ isQueueProcessing
  /\ \E i \in 1..Len(walletQueue) : walletQueue[i].retryCount > 0

\* C6, state part: an entry's task is started at most
\* WALLET_QUEUE_MAX_RETRIES + 1 times; an accepted entry that has not
\* succeeded and has failed at most WALLET_QUEUE_MAX_RETRIES times is held
\* exactly once (queued, running or waiting for its retry timer) with
\* attempt count equal to its number of failures; after
\* WALLET_QUEUE_MAX_RETRIES + 1 failures, or a success, it is held nowhere.
C6_State ==
  \A e \in Eids :
    /\ history[e].attempts <= WALLET_QUEUE_MAX_RETRIES + 1
    /\ history[e].fails <= WALLET_QUEUE_MAX_RETRIES + 1
    /\ LiveCount(e) <= 1
    /\ \A it \in LiveItems(e) : it.retryCount = history[e].fails
    /\ (history[e].accepted /\ ~history[e].ok
          /\ history[e].fails <= WALLET_QUEUE_MAX_RETRIES) => LiveCount(e) = 1
    /\ (history[e].ok \/ history[e].fails = WALLET_QUEUE_MAX_RETRIES + 1
          \/ ~history[e].accepted) => LiveCount(e) = 0

\* C6, step part: a failure with attempt count n < WALLET_QUEUE_MAX_RETRIES
\* leaves the entry with attempt count n + 1 on a retry timer whose delay is
\* at least min(base * 2^n, cap), and not in the queue; a failure with
\* n = WALLET_QUEUE_MAX_RETRIES leaves it nowhere.
C6_Step ==
  \A e \in Eids :
    history'[e].fails = history[e].fails + 1 =>
      IF history[e].fails < WALLET_QUEUE_MAX_RETRIES
      THEN /\ \E t \in retryTimers' :
                /\ t.item.eid = e
                /\ t.item.retryCount = history[e].fails + 1
                /\ t.delay >= Min(WALLET_QUEUE_DELAY_BASE_MS * 2 ^ history[e].fails,
                                  WALLET_QUEUE_DELAY_MAX_MS)
           /\ \A i \in 1..Len(walletQueue') : walletQueue'[i].eid # e
      ELSE LiveCount(e)' = 0

\* C6: a failed entry is re-enqueued exactly once with attempt count n + 1
\* after a backoff delay while n < WALLET_QUEUE_MAX_RETRIES and dropped when
\* n = WALLET_QUEUE_MAX_RETRIES, so its task runs at most
\* WALLET_QUEUE_MAX_RETRIES + 1 times per enqueue.
C6_BoundedRetries == [][C6_State' /\ C6_Step]_vars

\* An entry whose task failed every time has been dropped after
\* WALLET_QUEUE_MAX_RETRIES + 1 executions.
C6_Witness ==
  \E e \in Eids :
    /\ history[e].attempts = WALLET_QUEUE_MAX_RETRIES + 1
    /\ history[e].fails = WALLET_QUEUE_MAX_RETRIES + 1
    /\ LiveCount(e) = 0

\* The scenario of C7, completed: address a1 then address a2 were enqueued
\* (a2 while a1's first attempt was running, as the loop of
\* fetchAllTransactions does), nothing else was, a1's task failed twice and
\* then succeeded, a2's task did not fail, and the queue has drained.
C7_Scenario ==
  /\ nextEid = 3
  /\ history[1].address = "a1" /\ history[1].accepted
  /\ history[2].address = "a2" /\ history[2].accepted
  /\ history[2].atAdd[1] = [attempts |-> 1, fails |-> 0, ok |-> FALSE]
  /\ history[1].attempts = 3 /\ history[1].fails = 2 /\ history[1].ok
  /\ history[2].fails = 0 /\ history[2].ok
  /\ QueueDrained

\* C7 (as stated): in the scenario, a2's task is executed exactly once and
\* it started only after a1's task had finished successfully.
C7_AsStated ==
  C7_Scenario =>
    /\ history[2].attempts = 1
    /\ history[2].atStart[1].ok

\* C7 (amended): in the scenario, a2's task is executed exactly once; it
\* starts after a1's first attempt has failed and before a1's second attempt
\* starts, so a1's retries and its success come after a2's task.
C7_SecondAddressOnce ==
  C7_Scenario =>
    /\ history[2].attempts = 1
    /\ history[2].atStart[1] = [attempts |-> 1, fails |-> 1, ok |-> FALSE]

C7_Witness == C7_Scenario /\ history[2].attempts = 1

\* C8 (as stated): addToWalletQueue rejects the wallet exactly when an entry
\* with the same address is in the queue; an accepted wallet is appended as
\* a new entry with attempt count 0 (and started at once if the queue was
\* idle).
C8_AsStated ==
  [][\A e \in Eids :
       (nextEid = e /\ nextEid' = e + 1) =>
         /\ history'[e].accepted <=>
              ~\E i \in 1..Len(walletQueue) :
                 walletQueue[i].wallet.address = history'[e].address
         /\ history'[e].accepted =>
              \E it \in LiveItems(e)' :
                /\ it.retryCount = 0
                /\ it.wallet.address = history'[e].address]_vars

(***************************************************************************)
(* Hook claims (checked under Spec and SpecLive).                          *)
(***************************************************************************)
Finished(h) == pc[h] = "idle" /\ ~loading[h] /\ lastResult[h] \in {"merged", "kept"}

\* Every classified record with this id in `before` is in `after` with the
\* same category and notes, still classified.
ClassificationKept(before, after, id) ==
  \A i \in 1..Len(before) :
    (before[i].id = id /\ before[i].classified) =>
      /\ \E j \in 1..Len(after) : after[j].id = id
      /\ \A j \in 1..Len(after) :
           after[j].id = id =>
             /\ after[j].classified
             /\ after[j].category = before[i].category
             /\ after[j].notes = before[i].notes

\* C2: in every step, whatever refresh or classification steps came before,
\* each record of the classifying hook's record set (and of the stored list)
\* that is classified with label L and note N is still there, classified,
\* with label L and note N, unless the step is a classifyTransaction call on
\* that record's id.
C2_ClassificationSurvives ==
  [][\A id \in Keys :
       \/ /\ ClassificationKept(transactions["app"], transactions'["app"], id)
          /\ ClassificationKept(loadTransactions(storage), loadTransactions(storage'), id)
       \/ \E c \in Classifications : classifyTransaction("app", id, c[1], c[2])]_vars

\* A refresh of the classifying hook has finished whose merge met a fetched
\* record of a classified record's key, and the record is still classified.
C2_Witness ==
  /\ pc["app"] = "idle"
  /\ lastResult["app"] = "kept"
  /\ \E i \in 1..Len(transactions["app"]) :
       /\ transactions["app"][i].classified
       /\ transactions["app"][i].category = "Salary"
       /\ transactions["app"][i].notes = "memo"
       /\ transactions["app"][i].id \in transactionCache

\* C9 (as stated): two refreshes never run their fetch or merge phases
\* concurrently, i.e. at most one fetchAllTransactions call is between its
\* guard and its finally block.
C9_AsStated == Cardinality({h \in Hooks : pc[h] # "idle"}) <= 1

\* C10: every fetchAllTransactions call that passed its guard eventually
\* ends with the loading flag cleared, whichever collaborator calls throw.
C10_RefreshFinishes ==
  \A h \in Hooks : (pc[h] # "idle") ~> (pc[h] = "idle" /\ ~loading[h])

\* A refresh handed wallets to the queue and finished, yielding a record set,
\* although every fetch of it threw: nothing was cached and nothing fetched.
C10_Witness ==
  \E h \in Hooks :
    /\ Finished(h)
    /\ transactionCache = {}
    /\ transactions[h] = <<>>
    /\ refreshes = 1

(***************************************************************************)
(* Further Reconciler claims (checked under SpecReconcile).                *)
(***************************************************************************)
\* C17: the Reconciler is a function of its two inputs, and reconciling the
\* same candidates against its own output gives that output again: the same
\* records in the same order, none added, none duplicated.
C17_Idempotent ==
  rcPhase = "done" =>
    /\ rcOutput = Reconcile(rcCandidates, rcPersisted)
    /\ Reconcile(rcCandidates, rcOutput) = rcOutput

\* Candidates and stored records share a key, a stored record has no
\* candidate, a key occurs twice among the candidates.
C17_Witness ==
  /\ rcPhase = "done"
  /\ DuplicateKeys(rcCandidates)
  /\ \E j \in 1..Len(rcPersisted) :
       HasKey(rcCandidates, rcPersisted[j]) /\ rcPersisted[j].classified
  /\ \E j \in 1..Len(rcPersisted) : ~HasKey(rcCandidates, rcPersisted[j])

\* C19: in the output no record precedes a record with a strictly later
\* timestamp, whatever the order of the candidates and of the stored list.
C19_NewestFirst ==
  rcPhase = "done" =>
    \A a, b \in 1..Len(rcOutput) :
      a < b => rcOutput[a].timestamp >= rcOutput[b].timestamp

\* The inputs held an older record before a newer one, and both are output.
C19_Witness ==
  /\ rcPhase = "done"
  /\ Len(rcOutput) >= 2
  /\ rcOutput[1].timestamp > rcOutput[Len(rcOutput)].timestamp
  /\ \E a, b \in 1..Len(rcCandidates) :
       a < b /\ rcCandidates[a].timestamp < rcCandidates[b].timestamp
  /\ \E a, b \in 1..Len(rcPersisted) :
       a < b /\ rcPersisted[a].timestamp < rcPersisted[b].timestamp

(***************************************************************************)
(* Further hook claims (checked under Spec).                               *)
(***************************************************************************)
\* C18 (as stated): under refreshes and classifications, a (signature, mint)
\* key of the stored record set, or of a hook's record set, is still in that
\* set after every step.
C18_AsStated ==
  [][/\ KeysOf(loadTransactions(storage)) \subseteq KeysOf(loadTransactions(storage'))
     /\ \A h \in Hooks : KeysOf(transactions[h]) \subseteq KeysOf(transactions'[h])]_vars

(***************************************************************************)
(* Claims about the price oracle client (SpecRates).                       *)
(***************************************************************************)
Basket == {"SOL", "USDC", "USDT", "mSOL", "ETH", "BTC", "BONK", "JUP"}
CallDone == fxPc = "done"
RetriesExhausted == fxRetryCount = JUPITER_MAX_RETRIES
InRange(e) ==
  /\ e.kind = "number"
  /\ Leq(MIN_PRICE_VALUE, e)
  /\ Leq(e, MAX_PRICE_VALUE)

\* C12: getExchangeRates never rejects: whatever the oracle does (HTTP
\* error, 429, wrong content type, malformed body, bad structure, network
\* error, timeout), a finished call has resolved with a rate map, and when
\* the last of the retries failed too that map is the whole static fallback
\* table.
C12_NeverRejects ==
  /\ fxSettled.state # "rejected"
  /\ CallDone => fxSettled.state = "resolved"
  /\ (CallDone /\ fxLast.kind \in FailureKinds /\ RetriesExhausted) =>
       fxSettled.rates = FALLBACK_EXCHANGE_RATES

C12_Witness ==
  /\ CallDone
  /\ fxLast.kind \in FailureKinds \ {"timeout"}
  /\ RetriesExhausted
  /\ fxRequests = JUPITER_MAX_RETRIES + 1
  /\ fxSettled = Resolved(FALLBACK_EXCHANGE_RATES)

\* C13: the map a call resolves with has exactly the eight symbols of the
\* basket as its keys, wherever the prices come from; an answer that is empty
\* or erroneous for every asset gives every key of the fallback table.
C13_AllKeys ==
  /\ fxSettled.state = "resolved" => DOMAIN fxSettled.rates = Basket
  /\ DOMAIN FALLBACK_EXCHANGE_RATES = Basket
  /\ (CallDone /\ fxLast.kind = "ok"
        /\ \A m \in DOMAIN fxLast.data : ~InRange(fxLast.data[m])) =>
       fxSettled.rates = FALLBACK_EXCHANGE_RATES

C13_Witness ==
  /\ CallDone
  /\ fxLast.kind = "ok"
  /\ \A m \in DOMAIN fxLast.data : fxLast.data[m] = NoEntry
  /\ DOMAIN fxSettled.rates = Basket

\* C14: after a successful response each asset's rate is the oracle's price
\* if that is a number within [MIN_PRICE_VALUE, MAX_PRICE_VALUE], and that
\* asset's static fallback value otherwise; a bad entry of one asset leaves
\* the others' oracle prices in place.
C14_PerAssetFallback ==
  (CallDone /\ fxLast.kind = "ok") =>
    \A sym \in Basket :
      fxSettled.rates[sym] =
        IF InRange(fxLast.data[TOKEN_MINTS[sym]])
        THEN fxLast.data[TOKEN_MINTS[sym]]
        ELSE FALLBACK_EXCHANGE_RATES[sym]

C14_Witness ==
  /\ CallDone
  /\ fxLast.kind = "ok"
  /\ \E bad \in Basket :
       /\ fxLast.data[TOKEN_MINTS[bad]] = Usd(1000000, 1)
       /\ fxSettled.rates[bad] = FALLBACK_EXCHANGE_RATES[bad]
       /\ \A sym \in Basket \ {bad} :
            /\ fxSettled.rates[sym] = fxLast.data[TOKEN_MINTS[sym]]
            /\ fxSettled.rates[sym] # FALLBACK_EXCHANGE_RATES[sym]

\* C15: a call made while the cache is non-empty and younger than the TTL
\* returns the cached map, sends no request, and leaves the cached rates, the
\* last-refresh time and the tracked size as they were.
C15_FreshCacheReturned ==
  [][(/\ fxCalls' = fxCalls + 1
      /\ exchangeRateCache.rates # EmptyRates
      /\ exchangeRateCache.lastUpdated > 0
      /\ now - exchangeRateCache.lastUpdated < EXCHANGE_RATE_CACHE_TTL_MS)
     => /\ fxPc' = "done"
        /\ fxSettled' = Resolved(exchangeRateCache.rates)
        /\ fxRequests' = 0
        /\ exchangeRateCache' = exchangeRateCache]_vars

C15_Witness ==
  /\ CallDone
  /\ fxLast = CacheHit
  /\ fxRequests = 0
  /\ now - exchangeRateCache.lastUpdated = EXCHANGE_RATE_CACHE_TTL_MS - 1
  /\ fxSettled = Resolved(exchangeRateCache.rates)

\* C16: a request that timed out is retried with backoff like the other
\* transient failures, so a call that ends on a timeout has used up all
\* MAX_RETRIES retries.
C16_AsStated ==
  (CallDone /\ fxLast.kind = "timeout") => RetriesExhausted

(***************************************************************************)
(* Claims about the native fetcher's batch (SpecFetch, SpecFetchLive).     *)
(***************************************************************************)
\* C11: every transaction request has an effective timeout: once its timer
\* has fired while it is unanswered, the request is given up as "no record",
\* whether or not the RPC node ever answers.
C11_AsStated ==
  \A sig \in {BatchSignatures[i] : i \in DOMAIN BatchSignatures} :
    (txReq[sig].state = "pending" /\ txReq[sig].aborted)
      ~> (txReq[sig].state # "pending")

\* C20: for an unseen signature whose transaction was fetched and contains
\* the address, the callback yields no record when |post - pre| is below
\* 1000 lamports and exactly one record when it is 1000 or more; the batch
\* result holds that record.
HoldsAddress(req) == req.state = "answered" /\ req.tx.kind = "transfer"
Delta(req) == Abs(req.tx.post - req.tx.pre)
RecordsOf(list, sig) == {i \in DOMAIN list : list[i].signature = sig}

C20_DustThreshold ==
  \A sig \in DOMAIN txReq :
    HoldsAddress(txReq[sig]) =>
      /\ Delta(txReq[sig]) < 1000 =>
           /\ txReq[sig].result = <<>>
           /\ RecordsOf(txOut, sig) = {}
      /\ Delta(txReq[sig]) >= 1000 =>
           /\ Len(txReq[sig].result) = 1
           /\ txReq[sig].result[1].id = <<sig, "native">>
           /\ txPhase = "done" => Cardinality(RecordsOf(txOut, sig)) = 1

C20_Witness ==
  /\ txPhase = "done"
  /\ HoldsAddress(txReq["s1"]) /\ Delta(txReq["s1"]) = 999
  /\ HoldsAddress(txReq["s2"]) /\ Delta(txReq["s2"]) = 1000
  /\ Len(txOut) = 1
  /\ txOut[1].signature = "s2"

(***************************************************************************)
(* Claims about calculateBackoffDelay (SpecBackoff).                       *)
(***************************************************************************)
Uncapped == bkCall.baseDelay * 2 ^ bkCall.attempt
Capped == IF Uncapped < bkCall.maxDelay THEN Uncapped ELSE bkCall.maxDelay

\* C24: for every attempt >= 0 the delay d satisfies
\* min(base * 2^attempt, cap) <= d < min(base * 2^attempt, cap) + 1000, so it
\* stays below the cap plus the jitter bound.
C24_DelayRange ==
  bkDelay # <<>> =>
    /\ Capped <= bkDelay[1]
    /\ bkDelay[1] < Capped + 1000
    /\ bkDelay[1] < bkCall.maxDelay + 1000

C24_Witness ==
  /\ bkDelay # <<>>
  /\ Uncapped > bkCall.maxDelay
  /\ bkDelay[1] = bkCall.maxDelay + 999

\* C25: backoff(n + 1) >= backoff(n) - jitter_max whenever base * 2^n < cap,
\* for every pair of jitter values.
C25_AlmostMonotone ==
  (bkDelay # <<>> /\ Uncapped < bkCall.maxDelay) =>
    bkDelay[2] >= bkDelay[1] - 1000

C25_Witness ==
  /\ bkDelay # <<>>
  /\ Uncapped < bkCall.maxDelay
  /\ bkCall.jitter = 999 /\ bkCall.jitterNext = 0
  /\ bkDelay[2] < bkDelay[1]

(***************************************************************************)
(* Claims about the wallet queue under fair timers (SpecQueueLive).        *)
(***************************************************************************)
EntrySettled(e) ==
  history[e].ok \/ history[e].fails = WALLET_QUEUE_MAX_RETRIES + 1
QueueIdle == walletQueue = <<>> /\ ~isQueueProcessing

\* C30: with timers that fire, every entry accepted by addToWalletQueue is in
\* the end executed successfully or dropped after its last retry, and a
\* queue that is busy becomes empty with isQueueProcessing cleared, whatever
\* the tasks' successes and failures.
C30_QueueDrains ==
  /\ \A e \in Eids : history[e].accepted ~> (EntrySettled(e) /\ LiveCount(e) = 0)
  /\ ~QueueIdle ~> QueueIdle

C30_Witness ==
  /\ QueueDrained
  /\ \E e, f \in Eids :
       /\ history[e].accepted /\ history[e].ok /\ history[e].fails > 0
       /\ history[f].accepted /\ history[f].fails = WALLET_QUEUE_MAX_RETRIES + 1

(***************************************************************************)
(* More claims about the price oracle client (SpecRates, SpecRatesLive).   *)
(***************************************************************************)
\* C28: when a call that fetched returns, the cache holds exactly the map
\* returned, its number of keys as size and a new timestamp, the fallback
\* table included; a call that follows a fetch within the TTL sends no
\* request and returns that map.
C28_FetchReplacesCache ==
  [][/\ (fxPc = "fetching" /\ fxPc' = "done") =>
          /\ fxSettled'.state = "resolved"
          /\ exchangeRateCache'.rates = fxSettled'.rates
          /\ exchangeRateCache'.size = Cardinality(DOMAIN fxSettled'.rates)
          /\ exchangeRateCache'.lastUpdated = fxNow
          /\ exchangeRateCache'.lastUpdated > exchangeRateCache.lastUpdated
     /\ (fxCalls' = fxCalls + 1 /\ fxCalls >= 1
           /\ now - exchangeRateCache.lastUpdated < EXCHANGE_RATE_CACHE_TTL_MS) =>
          /\ fxRequests' = 0
          /\ fxSettled' = Resolved(exchangeRateCache.rates)
          /\ fxSettled' = fxSettled]_vars

C28_Witness ==
  /\ CallDone
  /\ fxCalls = 2
  /\ fxLast = CacheHit
  /\ fxRequests = 0
  /\ now > exchangeRateCache.lastUpdated
  /\ exchangeRateCache = StoreRates(FALLBACK_EXCHANGE_RATES, 1)
  /\ fxSettled = Resolved(FALLBACK_EXCHANGE_RATES)

\* C29: one call sends at most MAX_RETRIES + 1 requests and then returns:
\* whatever the oracle does at each request, the recursion ends.
C29_CallTerminates ==
  /\ [](fxRequests <= JUPITER_MAX_RETRIES + 1)
  /\ (fxPc \in {"fetching", "backoff"})
       ~> (fxPc = "done" /\ fxSettled.state # "pending")

C29_Witness ==
  /\ CallDone
  /\ fxRequests = JUPITER_MAX_RETRIES + 1
  /\ fxLast.kind = "ok"

Queued(w) == \E i \in 1..Len(walletQueue) : walletQueue[i].wallet = w
Fetching(w) == \E r \in running : r.item.wallet = w /\ r.step = "spl"

\* C22: an address with an invalid format is skipped: the step that ends its
\* task adds no record, caches nothing, schedules no retry and leaves the
\* other addresses in the queue; every other address of the refresh is then
\* fetched, and the refresh goes on to its merge.
C22_InvalidSkipped ==
  /\ [][\A r \in running :
          (~ValidPublicKey(r.item.wallet.address) /\ r \notin running') =>
            /\ allTransactions' = allTransactions
            /\ transactionCache' = transactionCache
            /\ walletQueue' = walletQueue
            /\ retryTimers' = {}
            /\ pc' = pc]_vars
  /\ \A w \in {W1, W2} : Queued(w) ~> Fetching(w)
  /\ (pc["app"] = "waiting") ~> Finished("app")

\* A refresh over the three configs has merged the records of the address
\* before the invalid one and of the address after it.
C22_Witness ==
  /\ activeWallets = {W1, W2, W3}
  /\ refreshes = 1
  /\ Finished("app")
  /\ KeysOf(transactions["app"]) = {<<"s1", "native">>, <<"s1", "m1">>, <<"s2", "native">>}

(***************************************************************************)
(* C27  At most one oracle fetch is in flight at any time: the call of     *)
(* start-up initialisation and a call made by a refresh, overlapping while *)
(* the cache is stale, never both have an oracle request outstanding.      *)
(* getExchangeRates keeps no record of a call in progress, so both calls   *)
(* find the cache stale and both send a request.                           *)
(***************************************************************************)
C27_AsStated == ~(fxPc = "fetching" /\ inPc = "fetching")

C21_AsStated ==
  \A sig, other \in {BatchSignatures[i] : i \in DOMAIN BatchSignatures} :
    (/\ sig # other
     /\ txPhase = "awaiting"
     /\ txReq[sig].state = "pending" /\ txReq[sig].aborted
     /\ txReq[other].result # <<>>)
      ~> (txPhase = "done" /\ RecordsOf(txOut, other) # {})

(***************************************************************************)
(* Claims about the signature cache (SpecCache).                           *)
(***************************************************************************)
HasStep == cacheLast'.op = "has" /\ cacheNow' = cacheNow
RecordStep == cacheLast'.op = "record" /\ cacheNow' = cacheNow
EntryOf(cache, key) == cache[CacheIndex(cache, key)]

\* C37: isTransactionCached(signature) returns true exactly when the
\* signature is a key of the Map; on a hit the entry of that key has its
\* access count raised by one and its last access set to now, every other
\* entry and the order stay as they are; on a miss the Map stays as it is.
C37_HasFrame ==
  [][HasStep =>
       LET key == cacheLast'.key
       IN  /\ cacheLast'.hit = (key \in CacheKeysOf(cacheEntries))
           /\ Len(cacheEntries') = Len(cacheEntries)
           /\ \A i \in DOMAIN cacheEntries :
                IF cacheEntries[i].key = key
                THEN cacheEntries'[i] =
                       [cacheEntries[i] EXCEPT
                          !.accessCount = cacheEntries[i].accessCount + 1,
                          !.lastAccessed = cacheNow]
                ELSE cacheEntries'[i] = cacheEntries[i]]_vars

C37_Witness ==
  /\ cacheLast.op = "has" /\ cacheLast.hit
  /\ Len(cacheEntries) >= 2
  /\ EntryOf(cacheEntries, cacheLast.key).accessCount = 2
  /\ EntryOf(cacheEntries, cacheLast.key).lastAccessed
       > EntryOf(cacheEntries, cacheLast.key).timestamp

\* C36: the Map never holds more entries than the limit, and no key twice;
\* a record on a Map at the limit evicts before it inserts.
C36_Bounded ==
  /\ Len(cacheEntries) <= MaxCacheSize
  /\ Cardinality(CacheKeysOf(cacheEntries)) = Len(cacheEntries)
  /\ (cacheLast.op = "record") => cacheLast.key \in CacheKeysOf(cacheEntries)

C36_Witness ==
  /\ cacheLast.op = "record" /\ cacheLast.evicted # {}
  /\ Len(cacheEntries) = MaxCacheSize
  /\ cacheLast.key \notin cacheLast.evicted

\* C35: an eviction removes exactly floor(n/4) of the n entries, and no
\* removed entry has a higher score accessCount * (now - lastAccessed) than
\* a retained one.
C35_LowestQuarter ==
  [][(RecordStep /\ NeedsCleanup(Len(cacheEntries), MaxCacheSize)) =>
       LET n == Len(cacheEntries)
           evicted == cacheLast'.evicted
       IN  /\ evicted \subseteq CacheKeysOf(cacheEntries)
           /\ Cardinality(evicted) = n \div 4
           /\ CacheKeysOf(cacheEntries') =
                (CacheKeysOf(cacheEntries) \ evicted) \cup {cacheLast'.key}
           /\ \A i, j \in DOMAIN cacheEntries :
                (cacheEntries[i].key \in evicted /\ cacheEntries[j].key \notin evicted)
                  => Score(cacheEntries[i], cacheNow) <= Score(cacheEntries[j], cacheNow)]_vars

C35_Witness ==
  /\ cacheLast.op = "record" /\ Cardinality(cacheLast.evicted) = 1
  /\ cacheLast.key \notin cacheLast.evicted
  /\ \E i, j \in DOMAIN cacheEntries :
       /\ cacheEntries[i].accessCount = 2
       /\ cacheEntries[j].accessCount = 1
       /\ cacheEntries[j].key # cacheLast.key
       /\ cacheEntries[i].lastAccessed # cacheEntries[j].lastAccessed

\* C34: of two entries with the same access count, the one touched more
\* recently is never evicted while the one touched longer ago is retained.
\* The score grows with the time since the last access and the lowest
\* scores are removed, so the entry touched last is the first to go.
C34_AsStated ==
  [][(RecordStep /\ NeedsCleanup(Len(cacheEntries), MaxCacheSize)) =>
       \A i, j \in DOMAIN cacheEntries :
         (/\ cacheEntries[i].accessCount = cacheEntries[j].accessCount
          /\ cacheEntries[i].lastAccessed > cacheEntries[j].lastAccessed)
           => ~(/\ cacheEntries[i].key \in cacheLast'.evicted
                /\ cacheEntries[j].key \notin cacheLast'.evicted)]_vars

(***************************************************************************)
(* Claims about a batch of either fetcher (SpecFetchers).                  *)
(***************************************************************************)
NativeBatchStarts == txRuns' = txRuns + 1
TokenBatchStarts == tkRuns' = tkRuns + 1
NativeKey(sig) == <<sig, "native">>

\* C31: a signature whose key is in the cache when the batch's callback
\* reaches it gets no request (no timer, no call), stays that way, and has
\* no record in the batch's result; in the native and in the token fetcher.
C31_CachedSkipped ==
  [][/\ NativeBatchStarts =>
          \A sig \in DOMAIN txReq :
            NativeKey(sig) \in transactionCache =>
              /\ txReq'[sig].state = "skipped"
              /\ txReq'[sig].timer = NoTimer
              /\ txReq'[sig].result = <<>>
     /\ TokenBatchStarts =>
          (TokenKey \in transactionCache =>
             /\ tkReq'.state = "skipped"
             /\ tkReq'.timer = NoTimer
             /\ tkReq'.outcome.result = <<>>)
     /\ \A sig \in DOMAIN txReq :
          (txReq[sig].state = "skipped" /\ ~NativeBatchStarts) =>
            /\ txReq'[sig] = txReq[sig]
            /\ RecordsOf(txOut', sig) = {}
     /\ (tkReq.state = "skipped" /\ ~TokenBatchStarts) =>
          (tkReq' = tkReq /\ tkOut' = <<>>)]_vars

C31_Witness ==
  /\ txPhase = "done" /\ txRuns = 2
  /\ txReq["s1"].state = "skipped"
  /\ txReq["s2"].state = "answered"
  /\ Len(txOut) = 1 /\ txOut[1].signature = "s2"

\* C33: a request that throws leaves the cache as it was, so the next batch
\* over the same signature requests its transaction again; in the native
\* and in the token fetcher.
C33_ThrowNotCached ==
  [][/\ \A sig \in DOMAIN txReq :
          /\ (txReq[sig].state = "pending" /\ txReq'[sig].state = "threw") =>
                transactionCache' = transactionCache
          /\ (txReq[sig].state = "threw" /\ NativeBatchStarts) =>
                (txReq'[sig].state = "pending" /\ txReq'[sig].timer = ArmedTimer)
     /\ (tkReq.state = "pending" /\ tkReq'.state = "threw") =>
          transactionCache' = transactionCache
     /\ (tkReq.state = "threw" /\ TokenBatchStarts) =>
          (tkReq'.state = "pending" /\ tkReq'.timer = ArmedTimer)]_vars

C33_Witness ==
  /\ tkRuns = 2 /\ tkPhase = "done"
  /\ tkReq.state = "answered"
  /\ Len(tkOut) = 1
  /\ txRuns = 0

\* C32: once the token fetcher's request has returned, its (signature,
\* mint) key is in the cache, whether the callback produced a record or
\* dropped the transaction as empty, unreasonable, without a transfer, or
\* below the dust threshold.
C32_TokenCached ==
  tkReq.state = "answered" =>
    /\ tkReq.outcome.cached
    /\ TokenKey \in transactionCache

C32_Witness ==
  /\ tkReq.state = "answered"
  /\ tkReq.outcome.found
  /\ tkReq.outcome.result = <<>>
  /\ TokAbs(tkReq.outcome.change) = Tok(0, 9)
  /\ TokenKey \in transactionCache

\* C39: the token fetcher returns a record only for an extracted change
\* whose absolute value is at least the dust threshold and at most
\* MAX_TOKEN_AMOUNT, and the record's amount is that absolute value.
C39_AmountBounds ==
  (tkReq.state = "answered" /\ tkReq.outcome.result # <<>>) =>
    /\ tkReq.outcome.found
    /\ TokLeq(TokenDustThreshold, TokAbs(tkReq.outcome.change))
    /\ TokLeq(TokAbs(tkReq.outcome.change), MaxTokenAmount)
    /\ Len(tkReq.outcome.result) = 1
    /\ tkReq.outcome.result[1].amount = TokAbs(tkReq.outcome.change)

C39_Witness ==
  /\ tkPhase = "done"
  /\ Len(tkOut) = 1
  /\ tkOut[1].amount = MaxTokenAmount
  /\ tkReq.outcome.usedBalances

\* C38: the token balances are used exactly when no valid transfer
\* instruction of the mint has the token account as source or destination.
\* The code sets tokenTransferFound for any valid transfer of the mint, so
\* after a transfer between two other accounts the balances are not read
\* and the change of the account is taken to be 0.
TouchesAccount(ins) ==
  /\ ins.type = "transfer" /\ ins.mint = TokenMint
  /\ ValidAmount(ins.amount)
  /\ ins.party \in {"in", "out"}

C38_AsStated ==
  (tkReq.state = "answered" /\ tkReq.tx.kind = "parsed" /\ tkReq.tx.hasBalances) =>
    (tkReq.outcome.usedBalances <=>
       ~\E i \in DOMAIN tkReq.tx.instructions : TouchesAccount(tkReq.tx.instructions[i]))

(***************************************************************************)
(* Claims about the batch loop (SpecBatches).                              *)
(***************************************************************************)
Outstanding(reqs) == {k \in DOMAIN reqs : reqs[k] = "pending"}

\* C40: within one run of a fetcher at most TRANSACTION_BATCH_SIZE requests
\* are outstanding, and a request is sent only when no request of an
\* earlier batch is outstanding.
C40_BoundedFanOut ==
  /\ [](Cardinality(Outstanding(mbReq)) <= TRANSACTION_BATCH_SIZE)
  /\ [][(\E k \in DOMAIN mbReq : mbReq[k] = "unsent" /\ mbReq'[k] = "pending")
          => Outstanding(mbReq) = {}]_vars

C40_Witness ==
  /\ fetcher = "token"
  /\ mbIndex = TRANSACTION_BATCH_SIZE
  /\ mbPhase = "awaiting"
  /\ Cardinality(Outstanding(mbReq)) = TRANSACTION_BATCH_SIZE
  /\ \A k \in 1..TRANSACTION_BATCH_SIZE : mbReq[k] = "settled"

====
